---- MODULE Spec2Model ----
(***************************************************************************)
(* Model of helgoboss-learn's Mode (src/src/mode/mode_struct.rs): the      *)
(* per-mapping value-transformation unit with its throttle counter.        *)
(*                                                                         *)
(* Numbers.  UnitValue and UnitIncrement are f64 newtypes in the crate;    *)
(* here they are exact rationals <<n, d>> in lowest terms with d > 0, so   *)
(* that equality of two values is equality of the tuples.  Option<T> is    *)
(* the record None or Some(x).                                             *)
(***************************************************************************)
EXTENDS Integers, Sequences, FiniteSets, TLC

VARIABLES mode, target, input, output, op, now, before, calls, sameSign, s5pos

\* mode      the Mode
\* target    the Target handed to control
\* input     the argument of the last call
\* output    the value the last call returned
\* op        the last operation: "init", "control", "feedback" or "tick"
\* now       the clock of the press-duration processor
\* before    the Mode as it was when the last call started
\* calls     the number of control calls so far
\* sameSign  all control calls so far were relative increments of one sign
\* s5pos     how many calls of scenario S5 the run has replayed, -1 once it
\*           has left the scenario
vars == <<mode, target, input, output, op, now, before, calls, sameSign, s5pos>>

(***************************************************************************)
(* Bounds of the model.                                                    *)
(***************************************************************************)
\* Unit values are the multiples of 1/Den.
Den == 4
\* Step counts range over -MaxCount..MaxCount without 0.
MaxCount == 2
\* Relative inputs range over -MaxInc..MaxInc without 0.
MaxInc == 2
\* The history counter "calls" stops counting here.
MaxCalls == 6
\* Largest clock value.
MaxTime == 3

(***************************************************************************)
(* Option<T>                                                               *)
(***************************************************************************)
None == [some |-> FALSE]
Some(x) == [some |-> TRUE, v |-> x]

(***************************************************************************)
(* Exact rational arithmetic standing in for f64.                          *)
(***************************************************************************)
Abs(n) == IF n < 0 THEN -n ELSE n

RECURSIVE GCD(_, _)
GCD(a, b) == IF b = 0 THEN a ELSE GCD(b, a % b)

Norm(n, d) ==
    LET g == GCD(Abs(n), d)
    IN  IF n = 0 THEN <<0, 1>> ELSE <<n \div g, d \div g>>

RZero == <<0, 1>>
ROne == <<1, 1>>
RInt(n) == <<n, 1>>
RAdd(a, b) == Norm(a[1] * b[2] + b[1] * a[2], a[2] * b[2])
RSub(a, b) == Norm(a[1] * b[2] - b[1] * a[2], a[2] * b[2])
RMul(a, b) == Norm(a[1] * b[1], a[2] * b[2])
RNeg(a) == <<-a[1], a[2]>>
RAbs(a) == <<Abs(a[1]), a[2]>>
\* a / b for b > 0
RDiv(a, b) == Norm(a[1] * b[2], a[2] * b[1])
RLt(a, b) == a[1] * b[2] < b[1] * a[2]
RLe(a, b) == a[1] * b[2] <= b[1] * a[2]
RClamp(a, lo, hi) == IF RLt(a, lo) THEN lo ELSE IF RLt(hi, a) THEN hi ELSE a
\* f64::round: to the nearest integer, halves away from zero
RRound(a) ==
    IF a[1] >= 0 THEN (2 * a[1] + a[2]) \div (2 * a[2])
    ELSE -((2 * (-a[1]) + a[2]) \div (2 * a[2]))

(***************************************************************************)
(* Interval<T> (src/src/base/interval.rs)                                  *)
(***************************************************************************)
Interval(lo, hi) == [min |-> lo, max |-> hi]
\* Interval<UnitValue>
contains(iv, value) == RLe(iv.min, value) /\ RLe(value, iv.max)
span(iv) == RSub(iv.max, iv.min)
full_unit_interval == Interval(RZero, ROne)
is_full(iv) == iv = full_unit_interval
center(iv) == RDiv(RAdd(iv.min, iv.max), RInt(2))

(***************************************************************************)
(* UnitValue, UnitIncrement (crate root; not part of the given sources)    *)
(***************************************************************************)
is_within_interval(v, iv) == contains(iv, v)
is_zero(v) == v = RZero
uv_inverse(v) == RSub(ROne, v)

map_to_unit_interval_from(v, iv, min_is_max_behavior) ==
    IF iv.min = iv.max
    THEN IF min_is_max_behavior = "PreferZero" THEN RZero ELSE ROne
    ELSE RClamp(RDiv(RSub(v, iv.min), span(iv)), RZero, ROne)

map_from_unit_interval_to(v, iv) ==
    RClamp(RAdd(iv.min, RMul(v, span(iv))), iv.min, iv.max)

snap_to_grid_by_interval_size(v, g) ==
    RClamp(RMul(RInt(RRound(RDiv(v, g))), g), RZero, ROne)

calc_distance_from(a, b) == RAbs(RSub(a, b))

\* sign is +1 or -1; fails when the magnitude is zero
to_increment(v, sign) ==
    IF v[1] = 0 THEN None ELSE Some(IF sign < 0 THEN RNeg(v) ELSE v)

negative_if(condition) == IF condition THEN -1 ELSE 1

\* If the value is not within the interval in the first place, the closest
\* bound is returned (tests target_interval_current_target_value_out_of_range:
\* a value below the interval yields the interval's min for increments of
\* either sign).
add_clamping(v, inc, iv) ==
    IF RLt(v, iv.min) THEN iv.min
    ELSE IF RLt(iv.max, v) THEN iv.max
    ELSE RClamp(RAdd(v, inc), iv.min, iv.max)

\* If the value is not within the interval, the bound is chosen by the sign of
\* the increment; otherwise a sum that leaves the interval snaps to the
\* opposite bound (tests rotate_1, rotate_2,
\* target_interval_rotate_current_target_value_out_of_range).
add_rotating(v, inc, iv) ==
    IF ~contains(iv, v)
    THEN IF inc[1] > 0 THEN iv.min ELSE iv.max
    ELSE LET sum == RAdd(v, inc)
         IN  IF RLt(sum, iv.min) THEN iv.max
             ELSE IF RLt(iv.max, sum) THEN iv.min
             ELSE sum

\* UnitIncrement::clamp_to_interval: the magnitude is clamped, the sign kept
ui_clamp_to_interval(u, iv) ==
    LET magnitude == RClamp(RAbs(u), iv.min, iv.max)
    IN  IF u[1] < 0 THEN RNeg(magnitude) ELSE magnitude

(***************************************************************************)
(* DiscreteIncrement, DiscreteValue (crate root; not part of the given     *)
(* sources)                                                                *)
(***************************************************************************)
signum(i) == IF i < 0 THEN -1 ELSE 1
is_positive(i) == i > 0
di_inverse(i) == -i
with_direction(i, direction_signum) == Abs(i) * direction_signum

\* The magnitude of the increment is an offset from the interval's minimum
\* that skips zero; the result is capped at the interval's maximum (tests
\* relative_target::min_step_count, min_step_count_throttle, max_step_count).
di_clamp_to_interval(i, iv) ==
    LET sum == iv.min + (Abs(i) - 1)
        skip_zero_sum == IF iv.min < 0 /\ sum >= 0 THEN sum + 1 ELSE sum
    IN  IF skip_zero_sum > iv.max THEN iv.max ELSE skip_zero_sum

\* |i| * step capped at 1, with the sign of i; fails when it is zero
to_unit_increment(i, atomic_unit_value) ==
    to_increment(RClamp(RMul(RInt(Abs(i)), atomic_unit_value), RZero, ROne),
                 signum(i))

\* Linear scale of a unit value into min..max (tests
\* absolute_to_relative::*::min_step_count*, max_step_count*); zero is skipped.
map_from_unit_interval_to_discrete_increment(v, iv) ==
    LET sum == iv.min + RRound(RMul(v, RInt(iv.max - iv.min)))
    IN  IF sum = 0 THEN 1 ELSE sum

\* DiscreteValue::to_increment
dv_to_increment(n, sign) == IF n = 0 THEN None ELSE Some(n * sign)

(***************************************************************************)
(* ControlValue, ControlType, Target, Transformation                       *)
(***************************************************************************)
Absolute(v) == [kind |-> "Absolute", v |-> v]
Relative(i) == [kind |-> "Relative", i |-> i]

ContinuousKinds ==
    {"AbsoluteContinuous", "AbsoluteContinuousRoundable", "AbsoluteTrigger",
     "AbsoluteSwitch"}
IncrementKinds == {"Relative", "VirtualMulti"}

is_trigger(control_type) == control_type.kind = "AbsoluteTrigger"

\* The user-supplied function, one of three samples: one that fails, one that
\* inverts its input and one that returns the current output value.
transform(t, input_value, output_value) ==
    CASE t = "err" -> None
      [] t = "inverse" -> Some(uv_inverse(input_value))
      [] OTHER -> Some(output_value)

(***************************************************************************)
(* PressDurationProcessor (not part of the given sources)                  *)
(***************************************************************************)
Infinity == MaxTime + 1
default_press_duration_interval == [min |-> 0, max |-> Infinity]
default_press_duration_processor ==
    [interval |-> default_press_duration_interval, last_button_press |-> None]

process(pdp, control_value, time) ==
    IF pdp.interval = default_press_duration_interval
    THEN [res |-> Some(control_value), pdp |-> pdp]
    ELSE IF ~is_zero(control_value)
    THEN [res |-> None,
          pdp |-> [pdp EXCEPT !.last_button_press =
                       Some([time |-> time, value |-> control_value])]]
    ELSE IF ~pdp.last_button_press.some
    THEN [res |-> None, pdp |-> pdp]
    ELSE LET press == pdp.last_button_press.v
             elapsed == time - press.time
         IN  IF pdp.interval.min <= elapsed /\ elapsed <= pdp.interval.max
             THEN [res |-> Some(press.value),
                   pdp |-> [pdp EXCEPT !.last_button_press = None]]
             ELSE [res |-> None, pdp |-> pdp]

(***************************************************************************)
(* Mode (src/src/mode/mode_struct.rs)                                      *)
(***************************************************************************)
default_mode ==
    [absolute_mode |-> "Normal",
     source_value_interval |-> full_unit_interval,
     target_value_interval |-> full_unit_interval,
     step_size_interval |-> Interval(<<1, 100>>, <<1, 100>>),
     step_count_interval |-> Interval(1, 1),
     jump_interval |-> full_unit_interval,
     press_duration_processor |-> default_press_duration_processor,
     approach_target_value |-> FALSE,
     reverse |-> FALSE,
     round_target_value |-> FALSE,
     out_of_range_behavior |-> "MinOrMax",
     control_transformation |-> None,
     feedback_transformation |-> None,
     rotate |-> FALSE,
     increment_counter |-> 0]

\* its_time_to_fire waiting one call too long before it fires again
its_time_to_fire_late(m, nth, direction_signum) ==
    IF m.increment_counter = 0
    THEN [fire |-> TRUE, counter |-> direction_signum]
    ELSE IF signum(m.increment_counter) # direction_signum
    THEN [fire |-> TRUE, counter |-> direction_signum]
    ELSE IF Abs(m.increment_counter) > nth
    THEN [fire |-> TRUE, counter |-> direction_signum]
    ELSE [fire |-> FALSE, counter |-> m.increment_counter + direction_signum]

\* its_time_to_fire without the change-of-direction case
its_time_to_fire_no_direction(m, nth, direction_signum) ==
    IF m.increment_counter = 0
    THEN [fire |-> TRUE, counter |-> direction_signum]
    ELSE IF Abs(m.increment_counter) >= nth
    THEN [fire |-> TRUE, counter |-> direction_signum]
    ELSE [fire |-> FALSE,
          counter |-> (Abs(m.increment_counter) + 1) * direction_signum]

\* its_time_to_fire that keeps counting instead of restarting when it fires
\* after the wait
its_time_to_fire_no_restart(m, nth, direction_signum) ==
    IF m.increment_counter = 0
    THEN [fire |-> TRUE, counter |-> direction_signum]
    ELSE IF signum(m.increment_counter) # direction_signum
    THEN [fire |-> TRUE, counter |-> direction_signum]
    ELSE [fire |-> Abs(m.increment_counter) >= nth,
          counter |-> m.increment_counter + direction_signum]

\* "nth" stands for "fire every nth time"; direction_signum is +1 or -1.
its_time_to_fire(m, nth, direction_signum) ==
    IF m.increment_counter = 0
    THEN [fire |-> TRUE, counter |-> direction_signum]
    ELSE IF signum(m.increment_counter) # direction_signum
    THEN [fire |-> TRUE, counter |-> direction_signum]
    ELSE IF Abs(m.increment_counter) >= nth
    THEN [fire |-> TRUE, counter |-> direction_signum]
    ELSE [fire |-> FALSE, counter |-> m.increment_counter + direction_signum]

pep_up_discrete_increment_consuming_reverse(m, increment) ==
    LET factor == di_clamp_to_interval(increment, m.step_count_interval)
        finish(actual_increment) ==
            LET clamped_increment ==
                    with_direction(actual_increment, signum(increment))
            IN  IF m.reverse THEN di_inverse(clamped_increment)
                ELSE clamped_increment
    IN  IF is_positive(factor)
        THEN [res |-> Some(finish(factor)),
              mode |-> [m EXCEPT !.reverse = FALSE]]
        ELSE LET nth == Abs(factor)
                 r == its_time_to_fire(m, nth, signum(increment))
                 m2 == [m EXCEPT !.increment_counter = r.counter,
                                 !.reverse = FALSE]
             IN  IF ~r.fire THEN [res |-> None, mode |-> m2]
                 ELSE [res |-> Some(finish(1)), mode |-> m2]

pep_up_discrete_increment_undirected(m, increment) ==
    LET factor == di_clamp_to_interval(increment, m.step_count_interval)
        finish(actual_increment) ==
            LET clamped_increment == actual_increment
            IN  IF m.reverse THEN di_inverse(clamped_increment)
                ELSE clamped_increment
    IN  IF is_positive(factor)
        THEN [res |-> Some(finish(factor)), mode |-> m]
        ELSE LET nth == Abs(factor)
                 r == its_time_to_fire(m, nth, signum(increment))
                 m2 == [m EXCEPT !.increment_counter = r.counter]
             IN  IF ~r.fire THEN [res |-> None, mode |-> m2]
                 ELSE [res |-> Some(finish(1)), mode |-> m2]

\* pep_up_discrete_increment counting in the direction of the result
pep_up_discrete_increment_counting_reversed(m, increment) ==
    LET factor == di_clamp_to_interval(increment, m.step_count_interval)
        finish(actual_increment) ==
            LET clamped_increment ==
                    with_direction(actual_increment, signum(increment))
            IN  IF m.reverse THEN di_inverse(clamped_increment)
                ELSE clamped_increment
    IN  IF is_positive(factor)
        THEN [res |-> Some(finish(factor)), mode |-> m]
        ELSE LET nth == Abs(factor)
                 r == its_time_to_fire(m, nth, signum(finish(1)))
                 m2 == [m EXCEPT !.increment_counter = r.counter]
             IN  IF ~r.fire THEN [res |-> None, mode |-> m2]
                 ELSE [res |-> Some(finish(1)), mode |-> m2]

\* pep_up_discrete_increment forgetting the count on an accelerated event
pep_up_discrete_increment_restarting_on_acceleration(m, increment) ==
    LET factor == di_clamp_to_interval(increment, m.step_count_interval)
        finish(actual_increment) ==
            LET clamped_increment ==
                    with_direction(actual_increment, signum(increment))
            IN  IF m.reverse THEN di_inverse(clamped_increment)
                ELSE clamped_increment
    IN  IF is_positive(factor)
        THEN [res |-> Some(finish(factor)),
              mode |-> [m EXCEPT !.increment_counter = 0]]
        ELSE LET nth == Abs(factor)
                 r == its_time_to_fire(m, nth, signum(increment))
                 m2 == [m EXCEPT !.increment_counter = r.counter]
             IN  IF ~r.fire THEN [res |-> None, mode |-> m2]
                 ELSE [res |-> Some(finish(1)), mode |-> m2]

pep_up_discrete_increment(m, increment) ==
    LET factor == di_clamp_to_interval(increment, m.step_count_interval)
        finish(actual_increment) ==
            LET clamped_increment ==
                    with_direction(actual_increment, signum(increment))
            IN  IF m.reverse THEN di_inverse(clamped_increment)
                ELSE clamped_increment
    IN  IF is_positive(factor)
        THEN [res |-> Some(finish(factor)), mode |-> m]
        ELSE LET nth == Abs(factor)
                 r == its_time_to_fire(m, nth, signum(increment))
                 m2 == [m EXCEPT !.increment_counter = r.counter]
             IN  IF ~r.fire THEN [res |-> None, mode |-> m2]
                 ELSE [res |-> Some(finish(1)), mode |-> m2]

convert_to_discrete_increment_minimal(m, control_value) ==
    LET factor ==
            map_from_unit_interval_to_discrete_increment(
                RZero, m.step_count_interval)
    IN  IF is_positive(factor)
        THEN [res |-> dv_to_increment(factor, negative_if(m.reverse)),
              mode |-> m]
        ELSE LET nth == Abs(factor)
                 r == its_time_to_fire(m, nth, 1)
                 m2 == [m EXCEPT !.increment_counter = r.counter]
             IN  IF ~r.fire THEN [res |-> None, mode |-> m2]
                 ELSE [res |-> dv_to_increment(1, negative_if(m.reverse)),
                       mode |-> m2]

\* convert_to_discrete_increment counting every press, fired or not
convert_to_discrete_increment_counting_presses(m, control_value) ==
    LET factor ==
            map_from_unit_interval_to_discrete_increment(
                map_to_unit_interval_from(control_value,
                                          m.source_value_interval, "PreferOne"),
                m.step_count_interval)
    IN  IF is_positive(factor)
        THEN [res |-> dv_to_increment(factor, negative_if(m.reverse)),
              mode |-> m]
        ELSE LET nth == Abs(factor)
                 r == its_time_to_fire(m, nth, 1)
                 m2 == [m EXCEPT !.increment_counter = m.increment_counter + 1]
             IN  IF ~r.fire THEN [res |-> None, mode |-> m2]
                 ELSE [res |-> dv_to_increment(1, negative_if(m.reverse)),
                       mode |-> m2]

convert_to_discrete_increment(m, control_value) ==
    LET factor ==
            map_from_unit_interval_to_discrete_increment(
                map_to_unit_interval_from(control_value,
                                          m.source_value_interval, "PreferOne"),
                m.step_count_interval)
    IN  IF is_positive(factor)
        THEN [res |-> dv_to_increment(factor, negative_if(m.reverse)),
              mode |-> m]
        ELSE LET nth == Abs(factor)
                 r == its_time_to_fire(m, nth, 1)
                 m2 == [m EXCEPT !.increment_counter = r.counter]
             IN  IF ~r.fire THEN [res |-> None, mode |-> m2]
                 ELSE [res |-> dv_to_increment(1, negative_if(m.reverse)),
                       mode |-> m2]

snapped_target_value_interval(m, grid_interval_size) ==
    Interval(snap_to_grid_by_interval_size(m.target_value_interval.min,
                                           grid_interval_size),
             snap_to_grid_by_interval_size(m.target_value_interval.max,
                                           grid_interval_size))

snapped_current_target_value_never_snapping(m, grid_interval_size, current_target_value) ==
    current_target_value

snapped_current_target_value(m, grid_interval_size, current_target_value) ==
    IF is_within_interval(current_target_value,
                          snapped_target_value_interval(m, grid_interval_size))
    THEN current_target_value
    ELSE snap_to_grid_by_interval_size(current_target_value, grid_interval_size)

hit_target_absolutely_with_unit_increment_unbounded(m, increment, grid_interval_size, current_target_value) ==
    LET snapped_cur == snapped_current_target_value(m, grid_interval_size,
                                                    current_target_value)
        desired_target_value ==
            add_clamping(snapped_cur, increment, full_unit_interval)
    IN  IF desired_target_value = current_target_value THEN None
        ELSE Some(Absolute(desired_target_value))

hit_target_absolutely_with_unit_increment_always_hitting(m, increment, grid_interval_size, current_target_value) ==
    LET snapped_iv == snapped_target_value_interval(m, grid_interval_size)
        snapped_cur == snapped_current_target_value(m, grid_interval_size,
                                                    current_target_value)
        desired_target_value ==
            IF m.rotate THEN add_rotating(snapped_cur, increment, snapped_iv)
            ELSE add_clamping(snapped_cur, increment, snapped_iv)
    IN  Some(Absolute(desired_target_value))

hit_target_absolutely_with_unit_increment_never_rotating(m, increment, grid_interval_size, current_target_value) ==
    LET snapped_iv == snapped_target_value_interval(m, grid_interval_size)
        snapped_cur == snapped_current_target_value(m, grid_interval_size,
                                                    current_target_value)
        desired_target_value ==
            add_clamping(snapped_cur, increment, snapped_iv)
    IN  IF desired_target_value = current_target_value THEN None
        ELSE Some(Absolute(desired_target_value))

hit_target_absolutely_with_unit_increment_always_rotating(m, increment, grid_interval_size, current_target_value) ==
    LET snapped_iv == snapped_target_value_interval(m, grid_interval_size)
        snapped_cur == snapped_current_target_value(m, grid_interval_size,
                                                    current_target_value)
        desired_target_value ==
            add_rotating(snapped_cur, increment, snapped_iv)
    IN  IF desired_target_value = current_target_value THEN None
        ELSE Some(Absolute(desired_target_value))

hit_target_absolutely_with_unit_increment(m, increment, grid_interval_size, current_target_value) ==
    LET snapped_iv == snapped_target_value_interval(m, grid_interval_size)
        snapped_cur == snapped_current_target_value(m, grid_interval_size,
                                                    current_target_value)
        desired_target_value ==
            IF m.rotate THEN add_rotating(snapped_cur, increment, snapped_iv)
            ELSE add_clamping(snapped_cur, increment, snapped_iv)
    IN  IF desired_target_value = current_target_value THEN None
        ELSE Some(Absolute(desired_target_value))

hit_discrete_target_absolutely(m, discrete_increment, target_step_size, current_value) ==
    LET unit_increment == to_unit_increment(discrete_increment, target_step_size)
    IN  IF ~unit_increment.some THEN None
        ELSE IF ~current_value.some THEN None
        ELSE hit_target_absolutely_with_unit_increment(
                 m, unit_increment.v, target_step_size, current_value.v)

round_to_nearest_discrete_value(control_type, approximate_control_value) ==
    IF control_type.kind \in {"AbsoluteContinuousRoundable", "AbsoluteDiscrete"}
    THEN snap_to_grid_by_interval_size(approximate_control_value,
                                       control_type.step)
    ELSE approximate_control_value

pep_up_control_value_never_reversing(m, control_value, control_type, current_target_value, min_is_max_behavior) ==
    LET v1 == map_to_unit_interval_from(control_value, m.source_value_interval,
                                        min_is_max_behavior)
        transformed ==
            IF m.control_transformation.some
            THEN transform(m.control_transformation.v, v1,
                           IF current_target_value.some
                           THEN current_target_value.v ELSE RZero)
            ELSE None
        v2 == IF transformed.some THEN transformed.v ELSE v1
        v3 == v2
        v4 == map_from_unit_interval_to(v3, m.target_value_interval)
        v5 == IF m.round_target_value
              THEN round_to_nearest_discrete_value(control_type, v4)
              ELSE v4
    IN  v5

pep_up_control_value_zero_on_failure(m, control_value, control_type, current_target_value, min_is_max_behavior) ==
    LET v1 == map_to_unit_interval_from(control_value, m.source_value_interval,
                                        min_is_max_behavior)
        transformed ==
            IF m.control_transformation.some
            THEN transform(m.control_transformation.v, v1,
                           IF current_target_value.some
                           THEN current_target_value.v ELSE RZero)
            ELSE None
        v2 == IF transformed.some THEN transformed.v
              ELSE IF m.control_transformation.some THEN RZero ELSE v1
        v3 == IF m.reverse THEN uv_inverse(v2) ELSE v2
        v4 == map_from_unit_interval_to(v3, m.target_value_interval)
        v5 == IF m.round_target_value
              THEN round_to_nearest_discrete_value(control_type, v4)
              ELSE v4
    IN  v5

pep_up_control_value(m, control_value, control_type, current_target_value, min_is_max_behavior) ==
    LET v1 == map_to_unit_interval_from(control_value, m.source_value_interval,
                                        min_is_max_behavior)
        transformed ==
            IF m.control_transformation.some
            THEN transform(m.control_transformation.v, v1,
                           IF current_target_value.some
                           THEN current_target_value.v ELSE RZero)
            ELSE None
        v2 == IF transformed.some THEN transformed.v ELSE v1
        v3 == IF m.reverse THEN uv_inverse(v2) ELSE v2
        v4 == map_from_unit_interval_to(v3, m.target_value_interval)
        v5 == IF m.round_target_value
              THEN round_to_nearest_discrete_value(control_type, v4)
              ELSE v4
    IN  v5

hit_if_changed_always(desired_target_value, current_target_value, control_type) ==
    Some(desired_target_value)

hit_if_changed(desired_target_value, current_target_value, control_type) ==
    IF ~is_trigger(control_type) /\ current_target_value = desired_target_value
    THEN None
    ELSE Some(desired_target_value)

hitting_target_considering_max_jump_ignoring_min(m, control_value, current_target_value, control_type) ==
    IF ~current_target_value.some THEN Some(control_value)
    ELSE LET cur == current_target_value.v
             distance == calc_distance_from(control_value, cur)
         IN  IF is_full(m.jump_interval)
             THEN hit_if_changed(control_value, cur, control_type)
             ELSE IF RLt(m.jump_interval.max, distance)
             THEN IF ~m.approach_target_value THEN None
                  ELSE LET approach_distance ==
                               map_from_unit_interval_to(distance,
                                                         m.jump_interval)
                           approach_increment ==
                               to_increment(approach_distance,
                                   negative_if(RLt(control_value, cur)))
                       IN  IF ~approach_increment.some THEN None
                           ELSE hit_if_changed(
                                    add_clamping(cur, approach_increment.v,
                                                 m.target_value_interval),
                                    cur, control_type)
             ELSE hit_if_changed(control_value, cur, control_type)

hitting_target_considering_max_jump_approaching_fully(m, control_value, current_target_value, control_type) ==
    IF ~current_target_value.some THEN Some(control_value)
    ELSE LET cur == current_target_value.v
             distance == calc_distance_from(control_value, cur)
         IN  IF is_full(m.jump_interval)
             THEN hit_if_changed(control_value, cur, control_type)
             ELSE IF RLt(m.jump_interval.max, distance)
             THEN IF ~m.approach_target_value THEN None
                  ELSE LET approach_distance ==
                               distance
                           approach_increment ==
                               to_increment(approach_distance,
                                   negative_if(RLt(control_value, cur)))
                       IN  IF ~approach_increment.some THEN None
                           ELSE hit_if_changed(
                                    add_clamping(cur, approach_increment.v,
                                                 m.target_value_interval),
                                    cur, control_type)
             ELSE IF RLt(distance, m.jump_interval.min) THEN None
             ELSE hit_if_changed(control_value, cur, control_type)

hitting_target_considering_max_jump(m, control_value, current_target_value, control_type) ==
    IF ~current_target_value.some THEN Some(control_value)
    ELSE LET cur == current_target_value.v
             distance == calc_distance_from(control_value, cur)
         IN  IF is_full(m.jump_interval)
             THEN hit_if_changed(control_value, cur, control_type)
             ELSE IF RLt(m.jump_interval.max, distance)
             THEN IF ~m.approach_target_value THEN None
                  ELSE LET approach_distance ==
                               map_from_unit_interval_to(distance,
                                                         m.jump_interval)
                           approach_increment ==
                               to_increment(approach_distance,
                                   negative_if(RLt(control_value, cur)))
                       IN  IF ~approach_increment.some THEN None
                           ELSE hit_if_changed(
                                    add_clamping(cur, approach_increment.v,
                                                 m.target_value_interval),
                                    cur, control_type)
             ELSE IF RLt(distance, m.jump_interval.min) THEN None
             ELSE hit_if_changed(control_value, cur, control_type)

control_absolute_normal_min_only(m, control_value, t, time) ==
    LET gate == process(m.press_duration_processor, control_value, time)
        m2 == [m EXCEPT !.press_duration_processor = gate.pdp]
        cv == gate.res.v
        within == is_within_interval(cv, m.source_value_interval)
        below == RLt(cv, m.source_value_interval.min)
        source_bound_value ==
            IF within THEN cv
            ELSE m.source_value_interval.min
        min_is_max_behavior ==
            IF within THEN "PreferOne"
            ELSE "PreferZero"
        pepped_up_control_value ==
            pep_up_control_value(m, source_bound_value, t.control_type,
                                 t.current_value, min_is_max_behavior)
    IN  IF ~gate.res.some THEN [res |-> None, mode |-> m2]
        ELSE IF ~within /\ m.out_of_range_behavior = "Ignore"
        THEN [res |-> None, mode |-> m2]
        ELSE [res |-> hitting_target_considering_max_jump(
                          m, pepped_up_control_value, t.current_value,
                          t.control_type),
              mode |-> m2]

control_absolute_normal_never_ignoring(m, control_value, t, time) ==
    LET gate == process(m.press_duration_processor, control_value, time)
        m2 == [m EXCEPT !.press_duration_processor = gate.pdp]
        cv == gate.res.v
        within == is_within_interval(cv, m.source_value_interval)
        below == RLt(cv, m.source_value_interval.min)
        source_bound_value ==
            IF within THEN cv
            ELSE IF m.out_of_range_behavior = "MinOrMax" /\ ~below
            THEN m.source_value_interval.max
            ELSE m.source_value_interval.min
        min_is_max_behavior ==
            IF within THEN "PreferOne"
            ELSE IF m.out_of_range_behavior = "MinOrMax" /\ ~below
            THEN "PreferOne"
            ELSE "PreferZero"
        pepped_up_control_value ==
            pep_up_control_value(m, source_bound_value, t.control_type,
                                 t.current_value, min_is_max_behavior)
    IN  IF ~gate.res.some THEN [res |-> None, mode |-> m2]
        ELSE [res |-> hitting_target_considering_max_jump(
                          m, pepped_up_control_value, t.current_value,
                          t.control_type),
              mode |-> m2]

control_absolute_normal(m, control_value, t, time) ==
    LET gate == process(m.press_duration_processor, control_value, time)
        m2 == [m EXCEPT !.press_duration_processor = gate.pdp]
        cv == gate.res.v
        within == is_within_interval(cv, m.source_value_interval)
        below == RLt(cv, m.source_value_interval.min)
        source_bound_value ==
            IF within THEN cv
            ELSE IF m.out_of_range_behavior = "MinOrMax" /\ ~below
            THEN m.source_value_interval.max
            ELSE m.source_value_interval.min
        min_is_max_behavior ==
            IF within THEN "PreferOne"
            ELSE IF m.out_of_range_behavior = "MinOrMax" /\ ~below
            THEN "PreferOne"
            ELSE "PreferZero"
        pepped_up_control_value ==
            pep_up_control_value(m, source_bound_value, t.control_type,
                                 t.current_value, min_is_max_behavior)
    IN  IF ~gate.res.some THEN [res |-> None, mode |-> m2]
        ELSE IF ~within /\ m.out_of_range_behavior = "Ignore"
        THEN [res |-> None, mode |-> m2]
        ELSE [res |-> hitting_target_considering_max_jump(
                          m, pepped_up_control_value, t.current_value,
                          t.control_type),
              mode |-> m2]

control_absolute_incremental_buttons_any_amplitude(m, control_value, t, time) ==
    LET gate == process(m.press_duration_processor, control_value, time)
        m2 == [m EXCEPT !.press_duration_processor = gate.pdp]
        cv == gate.res.v
        kind == t.control_type.kind
    IN  IF ~gate.res.some THEN [res |-> None, mode |-> m2]
        ELSE IF is_zero(cv)
        THEN [res |-> None, mode |-> m2]
        ELSE IF kind \in ContinuousKinds
        THEN LET step_size_value ==
                     map_from_unit_interval_to(
                         map_to_unit_interval_from(
                             cv, m.source_value_interval, "PreferOne"),
                         m.step_size_interval)
                 step_size_increment ==
                     to_increment(step_size_value, negative_if(m.reverse))
             IN  IF ~step_size_increment.some \/ ~t.current_value.some
                 THEN [res |-> None, mode |-> m2]
                 ELSE [res |-> hit_target_absolutely_with_unit_increment(
                                   m, step_size_increment.v,
                                   m.step_size_interval.min,
                                   t.current_value.v),
                       mode |-> m2]
        ELSE IF kind = "AbsoluteDiscrete"
        THEN LET c == convert_to_discrete_increment(m2, cv)
             IN  IF ~c.res.some THEN [res |-> None, mode |-> c.mode]
                 ELSE [res |-> hit_discrete_target_absolutely(
                                   m, c.res.v, t.control_type.step,
                                   t.current_value),
                       mode |-> c.mode]
        ELSE IF kind \in IncrementKinds
        THEN LET c == convert_to_discrete_increment(m2, cv)
             IN  IF ~c.res.some THEN [res |-> None, mode |-> c.mode]
                 ELSE [res |-> Some(Relative(c.res.v)), mode |-> c.mode]
        ELSE [res |-> None, mode |-> m2]

control_absolute_incremental_buttons(m, control_value, t, time) ==
    LET gate == process(m.press_duration_processor, control_value, time)
        m2 == [m EXCEPT !.press_duration_processor = gate.pdp]
        cv == gate.res.v
        kind == t.control_type.kind
    IN  IF ~gate.res.some THEN [res |-> None, mode |-> m2]
        ELSE IF is_zero(cv) \/ ~is_within_interval(cv, m.source_value_interval)
        THEN [res |-> None, mode |-> m2]
        ELSE IF kind \in ContinuousKinds
        THEN LET step_size_value ==
                     map_from_unit_interval_to(
                         map_to_unit_interval_from(
                             cv, m.source_value_interval, "PreferOne"),
                         m.step_size_interval)
                 step_size_increment ==
                     to_increment(step_size_value, negative_if(m.reverse))
             IN  IF ~step_size_increment.some \/ ~t.current_value.some
                 THEN [res |-> None, mode |-> m2]
                 ELSE [res |-> hit_target_absolutely_with_unit_increment(
                                   m, step_size_increment.v,
                                   m.step_size_interval.min,
                                   t.current_value.v),
                       mode |-> m2]
        ELSE IF kind = "AbsoluteDiscrete"
        THEN LET c == convert_to_discrete_increment(m2, cv)
             IN  IF ~c.res.some THEN [res |-> None, mode |-> c.mode]
                 ELSE [res |-> hit_discrete_target_absolutely(
                                   m, c.res.v, t.control_type.step,
                                   t.current_value),
                       mode |-> c.mode]
        ELSE IF kind \in IncrementKinds
        THEN LET c == convert_to_discrete_increment(m2, cv)
             IN  IF ~c.res.some THEN [res |-> None, mode |-> c.mode]
                 ELSE [res |-> Some(Relative(c.res.v)), mode |-> c.mode]
        ELSE [res |-> None, mode |-> m2]

control_absolute_toggle_buttons_off_at_center(m, control_value, t, time) ==
    LET gate == process(m.press_duration_processor, control_value, time)
        m2 == [m EXCEPT !.press_duration_processor = gate.pdp]
        center_target_value == center(m.target_value_interval)
        desired_target_value ==
            IF RLe(center_target_value, t.current_value.v)
            THEN m.target_value_interval.min
            ELSE m.target_value_interval.max
    IN  IF ~gate.res.some THEN [res |-> None, mode |-> m2]
        ELSE IF is_zero(gate.res.v) THEN [res |-> None, mode |-> m2]
        ELSE IF ~t.current_value.some THEN [res |-> None, mode |-> m2]
        ELSE IF desired_target_value = t.current_value.v
        THEN [res |-> None, mode |-> m2]
        ELSE [res |-> Some(desired_target_value), mode |-> m2]

control_absolute_toggle_buttons_ungated(m, control_value, t, time) ==
    LET gate == [res |-> Some(control_value), pdp |-> m.press_duration_processor]
        m2 == [m EXCEPT !.press_duration_processor = gate.pdp]
        center_target_value == center(m.target_value_interval)
        desired_target_value ==
            IF RLt(center_target_value, t.current_value.v)
            THEN m.target_value_interval.min
            ELSE m.target_value_interval.max
    IN  IF ~gate.res.some THEN [res |-> None, mode |-> m2]
        ELSE IF is_zero(gate.res.v) THEN [res |-> None, mode |-> m2]
        ELSE IF ~t.current_value.some THEN [res |-> None, mode |-> m2]
        ELSE IF desired_target_value = t.current_value.v
        THEN [res |-> None, mode |-> m2]
        ELSE [res |-> Some(desired_target_value), mode |-> m2]

\* control_absolute_toggle_buttons that only ever switches on
control_absolute_toggle_buttons_only_on(m, control_value, t, time) ==
    LET gate == process(m.press_duration_processor, control_value, time)
        m2 == [m EXCEPT !.press_duration_processor = gate.pdp]
        center_target_value == center(m.target_value_interval)
        desired_target_value ==
            m.target_value_interval.max
    IN  IF ~gate.res.some THEN [res |-> None, mode |-> m2]
        ELSE IF is_zero(gate.res.v) THEN [res |-> None, mode |-> m2]
        ELSE IF ~t.current_value.some THEN [res |-> None, mode |-> m2]
        ELSE IF desired_target_value = t.current_value.v
        THEN [res |-> None, mode |-> m2]
        ELSE [res |-> Some(desired_target_value), mode |-> m2]

control_absolute_toggle_buttons(m, control_value, t, time) ==
    LET gate == process(m.press_duration_processor, control_value, time)
        m2 == [m EXCEPT !.press_duration_processor = gate.pdp]
        center_target_value == center(m.target_value_interval)
        desired_target_value ==
            IF RLt(center_target_value, t.current_value.v)
            THEN m.target_value_interval.min
            ELSE m.target_value_interval.max
    IN  IF ~gate.res.some THEN [res |-> None, mode |-> m2]
        ELSE IF is_zero(gate.res.v) THEN [res |-> None, mode |-> m2]
        ELSE IF ~t.current_value.some THEN [res |-> None, mode |-> m2]
        ELSE IF desired_target_value = t.current_value.v
        THEN [res |-> None, mode |-> m2]
        ELSE [res |-> Some(desired_target_value), mode |-> m2]

control_relative_feeding_buttons(m, discrete_increment, t) ==
    LET kind == t.control_type.kind
    IN  IF kind \in ContinuousKinds
        THEN LET potentially_reversed_increment ==
                     IF m.reverse THEN di_inverse(discrete_increment)
                     ELSE discrete_increment
                 unit_increment ==
                     to_unit_increment(potentially_reversed_increment,
                                       m.step_size_interval.min)
             IN  IF ~unit_increment.some \/ ~t.current_value.some
                 THEN [res |-> None, mode |-> m]
                 ELSE [res |-> hit_target_absolutely_with_unit_increment(
                                   m,
                                   ui_clamp_to_interval(unit_increment.v,
                                                        m.step_size_interval),
                                   m.step_size_interval.min,
                                   t.current_value.v),
                       mode |-> m]
        ELSE IF kind = "AbsoluteDiscrete"
        THEN LET p == pep_up_discrete_increment(m, discrete_increment)
             IN  IF ~p.res.some THEN [res |-> None, mode |-> p.mode]
                 ELSE [res |-> hit_discrete_target_absolutely(
                                   m, p.res.v, t.control_type.step,
                                   t.current_value),
                       mode |-> p.mode]
        ELSE IF kind \in IncrementKinds
        THEN LET p == pep_up_discrete_increment(m, discrete_increment)
             IN  IF ~p.res.some THEN [res |-> None, mode |-> p.mode]
                 ELSE [res |-> Some(Relative(p.res.v)), mode |-> p.mode]
        ELSE [res |-> Some(Relative(discrete_increment)), mode |-> m]

control_relative_unclamped(m, discrete_increment, t) ==
    LET kind == t.control_type.kind
    IN  IF kind \in ContinuousKinds
        THEN LET potentially_reversed_increment ==
                     IF m.reverse THEN di_inverse(discrete_increment)
                     ELSE discrete_increment
                 unit_increment ==
                     to_unit_increment(potentially_reversed_increment,
                                       m.step_size_interval.min)
             IN  IF ~unit_increment.some \/ ~t.current_value.some
                 THEN [res |-> None, mode |-> m]
                 ELSE [res |-> hit_target_absolutely_with_unit_increment(
                                   m,
                                   unit_increment.v,
                                   m.step_size_interval.min,
                                   t.current_value.v),
                       mode |-> m]
        ELSE IF kind = "AbsoluteDiscrete"
        THEN LET p == pep_up_discrete_increment(m, discrete_increment)
             IN  IF ~p.res.some THEN [res |-> None, mode |-> p.mode]
                 ELSE [res |-> hit_discrete_target_absolutely(
                                   m, p.res.v, t.control_type.step,
                                   t.current_value),
                       mode |-> p.mode]
        ELSE IF kind \in IncrementKinds
        THEN LET p == pep_up_discrete_increment(m, discrete_increment)
             IN  IF ~p.res.some THEN [res |-> None, mode |-> p.mode]
                 ELSE [res |-> Some(Relative(p.res.v)), mode |-> p.mode]
        ELSE [res |-> None, mode |-> m]

control_relative(m, discrete_increment, t) ==
    LET kind == t.control_type.kind
    IN  IF kind \in ContinuousKinds
        THEN LET potentially_reversed_increment ==
                     IF m.reverse THEN di_inverse(discrete_increment)
                     ELSE discrete_increment
                 unit_increment ==
                     to_unit_increment(potentially_reversed_increment,
                                       m.step_size_interval.min)
             IN  IF ~unit_increment.some \/ ~t.current_value.some
                 THEN [res |-> None, mode |-> m]
                 ELSE [res |-> hit_target_absolutely_with_unit_increment(
                                   m,
                                   ui_clamp_to_interval(unit_increment.v,
                                                        m.step_size_interval),
                                   m.step_size_interval.min,
                                   t.current_value.v),
                       mode |-> m]
        ELSE IF kind = "AbsoluteDiscrete"
        THEN LET p == pep_up_discrete_increment(m, discrete_increment)
             IN  IF ~p.res.some THEN [res |-> None, mode |-> p.mode]
                 ELSE [res |-> hit_discrete_target_absolutely(
                                   m, p.res.v, t.control_type.step,
                                   t.current_value),
                       mode |-> p.mode]
        ELSE IF kind \in IncrementKinds
        THEN LET p == pep_up_discrete_increment(m, discrete_increment)
             IN  IF ~p.res.some THEN [res |-> None, mode |-> p.mode]
                 ELSE [res |-> Some(Relative(p.res.v)), mode |-> p.mode]
        ELSE [res |-> None, mode |-> m]

\* Option<UnitValue> -> Option<ControlValue>
map_absolute(r) ==
    [res |-> IF r.res.some THEN Some(Absolute(r.res.v)) ELSE None,
     mode |-> r.mode]

control(m, control_value, t, time) ==
    IF control_value.kind = "Relative"
    THEN control_relative(m, control_value.i, t)
    ELSE IF m.absolute_mode = "Normal"
    THEN map_absolute(control_absolute_normal(m, control_value.v, t, time))
    ELSE IF m.absolute_mode = "IncrementalButtons"
    THEN control_absolute_incremental_buttons(m, control_value.v, t, time)
    ELSE map_absolute(
             control_absolute_toggle_buttons(m, control_value.v, t, time))

\* feedback_util::feedback (not part of the given sources).  The tests
\* feedback_target_interval_reverse and feedback_out_of_range_*_one_value fix
\* the out-of-range handling: the value is replaced by a bound of the target
\* interval and then takes the same way as a value inside it.
feedback_util_feedback(target_value, reverse, transformation, source_value_interval, target_value_interval, out_of_range_behavior) ==
    LET within == is_within_interval(target_value, target_value_interval)
        below == RLt(target_value, target_value_interval.min)
        target_bound_value ==
            IF within THEN target_value
            ELSE IF out_of_range_behavior = "MinOrMax" /\ ~below
            THEN target_value_interval.max
            ELSE target_value_interval.min
        min_is_max_behavior ==
            IF within THEN "PreferOne"
            ELSE IF out_of_range_behavior = "MinOrMax" /\ ~below
            THEN "PreferOne"
            ELSE "PreferZero"
        u1 == map_to_unit_interval_from(target_bound_value,
                                        target_value_interval,
                                        min_is_max_behavior)
        transformed ==
            IF transformation.some THEN transform(transformation.v, u1, u1)
            ELSE None
        u2 == IF transformed.some THEN transformed.v ELSE u1
        u3 == IF reverse THEN uv_inverse(u2) ELSE u2
    IN  IF ~within /\ out_of_range_behavior = "Ignore" THEN None
        ELSE Some(map_from_unit_interval_to(u3, source_value_interval))

feedback_swapping_intervals(m, target_value) ==
    feedback_util_feedback(target_value, m.reverse, m.feedback_transformation,
                           m.target_value_interval, m.source_value_interval,
                           m.out_of_range_behavior)

feedback_without_out_of_range_behavior(m, target_value) ==
    feedback_util_feedback(target_value, m.reverse, m.feedback_transformation,
                           m.source_value_interval, m.target_value_interval,
                           "MinOrMax")

\* Mode::feedback
feedback(m, target_value) ==
    feedback_util_feedback(target_value, m.reverse, m.feedback_transformation,
                           m.source_value_interval, m.target_value_interval,
                           m.out_of_range_behavior)

(***************************************************************************)
(* Inputs and configurations the model draws from                          *)
(***************************************************************************)
UnitValues == {Norm(n, Den) : n \in 0..Den}
UnitIntervals ==
    {iv \in {Interval(a, b) : a \in UnitValues, b \in UnitValues} :
        RLe(iv.min, iv.max)}
StepSizes == UnitValues \ {RZero}
StepSizeIntervals ==
    {iv \in {Interval(a, b) : a \in StepSizes, b \in StepSizes} :
        RLe(iv.min, iv.max)}
Counts == (-MaxCount..MaxCount) \ {0}
CountIntervals ==
    {iv \in {Interval(a, b) : a \in Counts, b \in Counts} : iv.min <= iv.max}
Increments == (-MaxInc..MaxInc) \ {0}
RelativeInputs == {Relative(i) : i \in Increments}
AbsoluteInputs == {Absolute(v) : v \in UnitValues}
\* button presses: a release, a soft and a hard press
PressInputs == {Absolute(v) : v \in {RZero, Norm(1, 2), ROne}}
CurrentValues == {None} \cup {Some(v) : v \in UnitValues}

Target(control_type, current_value) ==
    [control_type |-> control_type, current_value |-> current_value]
IncrementTargets ==
    {Target([kind |-> "Relative"], Some(RZero)),
     Target([kind |-> "VirtualMulti"], None)}
DiscreteTargets ==
    {Target([kind |-> "AbsoluteDiscrete", step |-> s], c) :
        s \in StepSizes, c \in CurrentValues}

NoInput == [kind |-> "None"]

\* The direction its_time_to_fire is called with: the sign of a relative
\* increment, +1 for a button press.
direction(cv) == IF cv.kind = "Relative" THEN signum(cv.i) ELSE 1

\* The step-count factor of a call that reaches pep_up_discrete_increment or
\* convert_to_discrete_increment; 1 stands for "not reached".
factor_of(m, cv, t) ==
    IF t.control_type.kind \notin IncrementKinds \cup {"AbsoluteDiscrete"}
    THEN 1
    ELSE IF cv.kind = "Relative"
    THEN di_clamp_to_interval(cv.i, m.step_count_interval)
    ELSE IF m.absolute_mode = "IncrementalButtons"
            /\ m.press_duration_processor = default_press_duration_processor
            /\ ~is_zero(cv.v)
            /\ is_within_interval(cv.v, m.source_value_interval)
    THEN map_from_unit_interval_to_discrete_increment(
             map_to_unit_interval_from(cv.v, m.source_value_interval,
                                       "PreferOne"),
             m.step_count_interval)
    ELSE 1

(***************************************************************************)
(* Actions                                                                 *)
(***************************************************************************)
\* Mode::control
Call(cv) ==
    LET r == control(mode, cv, target, now)
    IN  /\ mode' = r.mode
        /\ before' = mode
        /\ output' = r.res
        /\ input' = cv
        /\ op' = "control"

Control ==
    /\ \E cv \in RelativeInputs \cup AbsoluteInputs : Call(cv)
    /\ UNCHANGED <<target, now, calls, sameSign, s5pos>>

\* Mode::control, counting the calls and recording whether all of them so far
\* were relative increments of one sign
ControlRun ==
    /\ calls < MaxCalls
    /\ \E cv \in RelativeInputs \cup PressInputs :
          /\ Call(cv)
          /\ sameSign' = /\ cv.kind = "Relative"
                         /\ \/ calls = 0
                            \/ /\ sameSign
                               /\ signum(input.i) = signum(cv.i)
    /\ calls' = calls + 1
    /\ UNCHANGED <<target, now, s5pos>>

\* Mode::feedback
Feedback ==
    /\ \E v \in UnitValues :
          /\ output' = feedback(mode, v)
          /\ input' = [kind |-> "Feedback", v |-> v]
    /\ op' = "feedback"
    /\ before' = mode
    /\ UNCHANGED <<mode, target, now, calls, sameSign, s5pos>>

\* Time passes while a button is held down.
Tick ==
    /\ mode.press_duration_processor.last_button_press.some
    /\ now < MaxTime
    /\ now' = now + 1
    /\ op' = "tick"
    /\ UNCHANGED <<mode, target, input, output, before, calls, sameSign,
                   s5pos>>

InitCommon ==
    /\ before = mode
    /\ input = NoInput
    /\ output = None
    /\ op = "init"
    /\ now = 0
    /\ calls = 0
    /\ sameSign = TRUE
    /\ s5pos = 0

(***************************************************************************)
(* Throttling: step counts of either sign on targets that take step counts  *)
(***************************************************************************)
ThrottleModes ==
    {[default_mode EXCEPT !.absolute_mode = "IncrementalButtons",
                          !.step_count_interval = sc,
                          !.reverse = rev] :
        sc \in CountIntervals, rev \in BOOLEAN}

ThrottleTargets ==
    IncrementTargets
    \cup {Target([kind |-> "AbsoluteDiscrete", step |-> Norm(1, Den)], c) :
             c \in {Some(RZero), Some(ROne)}}

InitThrottle ==
    /\ mode \in ThrottleModes
    /\ target \in ThrottleTargets
    /\ InitCommon

NextThrottle == ControlRun

SpecThrottle == InitThrottle /\ [][NextThrottle]_vars

\* C1: with step_count_interval = [-N,-N], a Relative or VirtualMulti target
\* and the counter initially 0, in a run of relative increments of one sign the
\* calls numbered 1, N+1, 2N+1, ... return Some and all others None.
ThrottleLaw ==
    (/\ op = "control"
     /\ sameSign
     /\ mode.step_count_interval.min < 0
     /\ mode.step_count_interval.min = mode.step_count_interval.max
     /\ target.control_type.kind \in IncrementKinds)
    => (output.some <=> (calls - 1) % (-mode.step_count_interval.min) = 0)

ThrottleLawWitness ==
    /\ op = "control"
    /\ sameSign
    /\ mode.step_count_interval = Interval(-2, -2)
    /\ target.control_type.kind \in IncrementKinds
    /\ calls = 5
    /\ output.some

\* The call of this step runs the throttle logic.
Throttled == op' = "control" /\ factor_of(mode, input', target) < 0

DirectionChanged ==
    /\ Throttled
    /\ mode.increment_counter # 0
    /\ signum(mode.increment_counter) # direction(input')

\* C2 as stated: in throttle mode a call whose direction differs from the sign
\* of a non-zero counter always emits an output and sets the counter to the
\* new direction.
DirectionChangeAlwaysEmits ==
    [][DirectionChanged =>
          /\ output'.some
          /\ mode'.increment_counter = direction(input')]_vars

\* C2 amended: such a call sets the counter to the new direction and, on a
\* Relative or VirtualMulti target, emits an output; a following call in the
\* same direction with divisor N is suppressed and counted as long as the
\* counter is below N.
DirectionChangeResets ==
    [][/\ DirectionChanged =>
             /\ mode'.increment_counter = direction(input')
             /\ target.control_type.kind \in IncrementKinds => output'.some
       /\ (/\ Throttled
           /\ mode.increment_counter # 0
           /\ signum(mode.increment_counter) = direction(input')
           /\ Abs(mode.increment_counter) < -factor_of(mode, input', target))
          => /\ ~output'.some
             /\ mode'.increment_counter
                    = mode.increment_counter + direction(input')]_vars

DirectionChangeWitness ==
    /\ op = "control"
    /\ factor_of(before, input, target) < -1
    /\ target.control_type.kind \in IncrementKinds
    /\ Abs(before.increment_counter) > 1
    /\ signum(before.increment_counter) # direction(input)
    /\ mode.increment_counter = direction(input)
    /\ output.some

(***************************************************************************)
(* Scenario S5 (test relative::relative_target::min_step_count_throttle)   *)
(***************************************************************************)
S5Calls ==
    <<[i |-> -10, out |-> Some(Relative(-6))],
      [i |-> -2, out |-> Some(Relative(-1))],
      [i |-> -2, out |-> None],
      [i |-> -2, out |-> None],
      [i |-> -2, out |-> Some(Relative(-1))],
      [i |-> -1, out |-> None],
      [i |-> -1, out |-> None],
      [i |-> -1, out |-> None],
      [i |-> -1, out |-> Some(Relative(-1))],
      [i |-> 1, out |-> Some(Relative(1))],
      [i |-> 2, out |-> None],
      [i |-> 2, out |-> None],
      [i |-> 2, out |-> Some(Relative(1))],
      [i |-> 10, out |-> Some(Relative(6))]>>

S5Increments == {S5Calls[k].i : k \in 1..Len(S5Calls)}

\* Mode::control with one of the increments of the scenario; s5pos follows the
\* scenario as long as the calls made are the scenario's calls in order.
ControlS5 ==
    /\ \E i \in S5Increments :
          /\ Call(Relative(i))
          /\ s5pos' = IF /\ s5pos >= 0
                         /\ s5pos < Len(S5Calls)
                         /\ S5Calls[s5pos + 1].i = i
                      THEN s5pos + 1
                      ELSE -1
    /\ UNCHANGED <<target, now, calls, sameSign>>

InitS5 ==
    /\ mode = [default_mode EXCEPT !.step_count_interval = Interval(-4, 100)]
    /\ target \in IncrementTargets
    /\ InitCommon

NextS5 == ControlS5

SpecS5 == InitS5 /\ [][NextS5]_vars

\* C3: scenario S5: the k-th call of the scenario returns the k-th listed
\* output; one counter serves events of different divisors.
ScenarioS5 == s5pos >= 1 => output = S5Calls[s5pos].out

ScenarioS5Witness ==
    /\ s5pos = Len(S5Calls)
    /\ output = Some(Relative(6))
    /\ mode.increment_counter = 1

(***************************************************************************)
(* The Mode in all its absolute modes, with feedback and the press-duration *)
(* gate                                                                    *)
(***************************************************************************)
LowValue == Norm(1, Den)
HighValue == Norm(Den - 1, Den)
SampleIntervals ==
    {full_unit_interval, Interval(LowValue, HighValue),
     Interval(LowValue, LowValue), Interval(RZero, HighValue),
     Interval(LowValue, ROne)}
SampleJumpInterval == Interval(LowValue, Norm(2, Den))
SampleCountIntervals == {Interval(1, 1), Interval(1, 2), Interval(-2, -1)}
SampleStepSizeIntervals ==
    {Interval(LowValue, LowValue), Interval(Norm(2, Den), HighValue)}
SampleCurrentValues == {None, Some(RZero), Some(LowValue), Some(ROne)}
Transformations == {None, Some("err"), Some("inverse"), Some("output")}
OutOfRangeBehaviors == {"MinOrMax", "Min", "Ignore"}

NormalModes ==
    {[default_mode EXCEPT !.target_value_interval = t,
                          !.jump_interval = ja[1],
                          !.approach_target_value = ja[2],
                          !.round_target_value = r] :
        t \in SampleIntervals,
        ja \in {<<full_unit_interval, FALSE>>, <<SampleJumpInterval, FALSE>>,
                <<SampleJumpInterval, TRUE>>},
        r \in BOOLEAN}
    \cup
    {[default_mode EXCEPT !.source_value_interval = s,
                          !.target_value_interval = Interval(LowValue, HighValue),
                          !.out_of_range_behavior = o,
                          !.reverse = rev] :
        s \in {full_unit_interval, Interval(LowValue, HighValue)},
        o \in OutOfRangeBehaviors, rev \in BOOLEAN}
    \cup
    {[default_mode EXCEPT !.control_transformation = ct,
                          !.feedback_transformation = ct] :
        ct \in Transformations}

NormalTargets ==
    {Target([kind |-> "AbsoluteContinuous"], c) : c \in SampleCurrentValues}
    \cup {Target([kind |-> "AbsoluteTrigger"], c) :
             c \in {Some(RZero), Some(LowValue)}}
    \cup {Target([kind |-> "AbsoluteDiscrete", step |-> Norm(2, Den)], c) :
             c \in {Some(RZero), Some(LowValue)}}

ToggleModes ==
    {[default_mode EXCEPT !.absolute_mode = "ToggleButtons",
                          !.target_value_interval = t] : t \in SampleIntervals}

ToggleTargets ==
    {Target([kind |-> "AbsoluteSwitch"], c) : c \in CurrentValues}

\* step sizes apply: continuous targets
StepSizeModes ==
    {[default_mode EXCEPT !.absolute_mode = "IncrementalButtons",
                          !.target_value_interval = t,
                          !.step_size_interval = ss,
                          !.rotate = rot,
                          !.reverse = rev] :
        t \in SampleIntervals, ss \in SampleStepSizeIntervals,
        rot \in BOOLEAN, rev \in BOOLEAN}

StepSizeTargets ==
    {Target([kind |-> "AbsoluteContinuousRoundable", step |-> LowValue], c) :
        c \in SampleCurrentValues}

\* step counts apply: discrete targets and targets that take increments
StepCountModes ==
    {[default_mode EXCEPT !.absolute_mode = "IncrementalButtons",
                          !.target_value_interval = t,
                          !.step_count_interval = sc,
                          !.rotate = rot,
                          !.reverse = rev] :
        t \in SampleIntervals, sc \in SampleCountIntervals,
        rot \in BOOLEAN, rev \in BOOLEAN}

StepCountTargets ==
    {Target([kind |-> "AbsoluteDiscrete", step |-> LowValue], c) :
        c \in SampleCurrentValues}
    \cup IncrementTargets
    \cup {Target([kind |-> "VirtualButton"], None)}

GatedModes ==
    {[default_mode EXCEPT !.absolute_mode = am,
                          !.step_count_interval = Interval(-2, -2),
                          !.press_duration_processor =
                              [interval |-> [min |-> 1, max |-> 2],
                               last_button_press |-> None]] :
        am \in {"Normal", "IncrementalButtons", "ToggleButtons"}}

GatedTargets ==
    {Target([kind |-> "AbsoluteContinuous"], Some(LowValue)),
     Target([kind |-> "Relative"], Some(RZero))}

Configurations ==
    (NormalModes \X NormalTargets) \cup (ToggleModes \X ToggleTargets)
    \cup (StepSizeModes \X StepSizeTargets)
    \cup (StepCountModes \X StepCountTargets)
    \cup (GatedModes \X GatedTargets)

Init ==
    /\ \E c \in Configurations : mode = c[1] /\ target = c[2]
    /\ InitCommon

Next == Control \/ Feedback \/ Tick

Spec == Init /\ [][Next]_vars

\* The fields of the Mode that hold its configuration.
configuration(m) ==
    [m EXCEPT !.increment_counter = 0,
              !.press_duration_processor = default_press_duration_processor]

\* C4: control changes no field of the Mode but increment_counter and the
\* state of the press-duration processor (whose hold interval stays as it
\* is); feedback changes no field at all.
OnlyCounterAndGateChange ==
    [][/\ op' = "control" =>
             /\ configuration(mode') = configuration(mode)
             /\ mode'.press_duration_processor.interval
                    = mode.press_duration_processor.interval
       /\ op' = "feedback" => mode' = mode]_vars

OnlyCounterAndGateChangeWitness ==
    /\ op = "control"
    /\ mode.increment_counter # before.increment_counter
    /\ before.press_duration_processor.last_button_press.some
    /\ mode.press_duration_processor # before.press_duration_processor
    /\ configuration(mode) = configuration(before)

(***************************************************************************)
(* P1: outputs stay inside the target interval                             *)
(***************************************************************************)
\* A call that ends in hit_target_absolutely_with_unit_increment: a relative
\* increment, or a value in IncrementalButtons mode, on a target that takes
\* absolute values.
steps_target(m, cv, t) ==
    /\ t.control_type.kind \in ContinuousKinds \cup {"AbsoluteDiscrete"}
    /\ \/ cv.kind = "Relative"
       \/ cv.kind = "Absolute" /\ m.absolute_mode = "IncrementalButtons"

\* The grid hit_target_absolutely_with_unit_increment is called with: the
\* atomic step size of a discrete target, the minimum step size otherwise.
grid_of(m, t) ==
    IF t.control_type.kind = "AbsoluteDiscrete" THEN t.control_type.step
    ELSE m.step_size_interval.min

\* A call whose value pep_up_control_value rounds to the target's steps.
rounds_target(m, cv, t) ==
    /\ cv.kind = "Absolute"
    /\ m.absolute_mode = "Normal"
    /\ m.round_target_value
    /\ t.control_type.kind \in {"AbsoluteContinuousRoundable",
                                "AbsoluteDiscrete"}

\* C5 (P1): an Absolute value returned by control lies inside the target
\* value interval; where the call steps on a grid, inside that interval with
\* both bounds snapped to the grid; where the call rounds to the target's
\* steps, inside one of the two.
OutputsInsideTargetInterval ==
    (op = "control" /\ output.some /\ output.v.kind = "Absolute") =>
        IF steps_target(before, input, target)
        THEN contains(snapped_target_value_interval(
                          before, grid_of(before, target)), output.v.v)
        ELSE IF rounds_target(before, input, target)
        THEN \/ contains(before.target_value_interval, output.v.v)
             \/ contains(snapped_target_value_interval(
                             before, target.control_type.step), output.v.v)
        ELSE contains(before.target_value_interval, output.v.v)

\* a step from a current value outside the target interval, ending on a
\* snapped bound that lies outside the target interval itself
OutputsInsideTargetIntervalWitness ==
    /\ op = "control" /\ output.some /\ output.v.kind = "Absolute"
    /\ steps_target(before, input, target)
    /\ target.current_value.some
    /\ ~contains(before.target_value_interval, target.current_value.v)
    /\ ~contains(before.target_value_interval, output.v.v)

(***************************************************************************)
(* Stepping: relative increments and IncrementalButtons presses on targets *)
(* that take absolute values, with target intervals on and off the grid    *)
(***************************************************************************)
SteppingStepSizeIntervals ==
    {Interval(LowValue, LowValue), Interval(LowValue, Norm(2, Den)),
     Interval(Norm(2, Den), Norm(2, Den))}
SteppingCountIntervals ==
    {Interval(1, 1), Interval(1, MaxCount), Interval(-MaxCount, -1)}
SteppingCurrentValues == {Some(v) : v \in UnitValues}

SteppingMode(t, rot, rev, ss, sc) ==
    [default_mode EXCEPT !.absolute_mode = "IncrementalButtons",
                         !.target_value_interval = t,
                         !.rotate = rot,
                         !.reverse = rev,
                         !.step_size_interval = ss,
                         !.step_count_interval = sc]

SteppingConfigurations ==
    {<<SteppingMode(t, rot, rev, ss, default_mode.step_count_interval),
       Target([kind |-> "AbsoluteContinuous"], c)>> :
        t \in UnitIntervals, rot \in BOOLEAN, rev \in BOOLEAN,
        ss \in SteppingStepSizeIntervals, c \in SteppingCurrentValues}
    \cup
    {<<SteppingMode(t, rot, rev, default_mode.step_size_interval, sc),
       Target([kind |-> "AbsoluteDiscrete", step |-> Norm(2, Den)], c)>> :
        t \in UnitIntervals, rot \in BOOLEAN, rev \in BOOLEAN,
        sc \in SteppingCountIntervals, c \in SteppingCurrentValues}
    \cup
    {<<SteppingMode(Interval(LowValue, HighValue), rot, rev, ss,
                    Interval(-MaxCount, -1)),
       Target(ct, c)>> :
        rot \in BOOLEAN, rev \in BOOLEAN, ss \in SteppingStepSizeIntervals,
        ct \in {[kind |-> "AbsoluteContinuousRoundable", step |-> LowValue],
                [kind |-> "AbsoluteTrigger"], [kind |-> "AbsoluteSwitch"]},
        c \in SteppingCurrentValues}

InitStepping ==
    /\ \E c \in SteppingConfigurations : mode = c[1] /\ target = c[2]
    /\ InitCommon

\* Mode::control with an increment or a button press
ControlStepping ==
    /\ \E cv \in RelativeInputs \cup PressInputs : Call(cv)
    /\ UNCHANGED <<target, now, calls, sameSign, s5pos>>

NextStepping == ControlStepping

SpecStepping == InitStepping /\ [][NextStepping]_vars

\* The increment a call hands to hit_target_absolutely_with_unit_increment;
\* None when the call does not get there.
effective_increment(m, cv, t) ==
    LET kind == t.control_type.kind
    IN  IF ~t.current_value.some THEN None
        ELSE IF cv.kind = "Relative"
        THEN IF kind \in ContinuousKinds
             THEN LET unit_increment ==
                          to_unit_increment(
                              IF m.reverse THEN di_inverse(cv.i) ELSE cv.i,
                              m.step_size_interval.min)
                  IN  IF ~unit_increment.some THEN None
                      ELSE Some(ui_clamp_to_interval(unit_increment.v,
                                                     m.step_size_interval))
             ELSE IF kind = "AbsoluteDiscrete"
             THEN LET p == pep_up_discrete_increment(m, cv.i)
                  IN  IF ~p.res.some THEN None
                      ELSE to_unit_increment(p.res.v, t.control_type.step)
             ELSE None
        ELSE IF /\ cv.kind = "Absolute"
                /\ m.absolute_mode = "IncrementalButtons"
                /\ process(m.press_duration_processor, cv.v, now).res.some
                /\ ~is_zero(cv.v)
                /\ is_within_interval(cv.v, m.source_value_interval)
        THEN IF kind \in ContinuousKinds
             THEN to_increment(
                      map_from_unit_interval_to(
                          map_to_unit_interval_from(
                              cv.v, m.source_value_interval, "PreferOne"),
                          m.step_size_interval),
                      negative_if(m.reverse))
             ELSE IF kind = "AbsoluteDiscrete"
             THEN LET c == convert_to_discrete_increment(m, cv.v)
                  IN  IF ~c.res.some THEN None
                      ELSE to_unit_increment(c.res.v, t.control_type.step)
             ELSE None
        ELSE None

\* The last call, seen from hit_target_absolutely_with_unit_increment
eff == effective_increment(before, input, target)
cur == target.current_value.v
grid == grid_of(before, target)
tiv == before.target_value_interval
siv == snapped_target_value_interval(before, grid)
Stepped == op = "control" /\ eff.some
Emits(v) == output = Some(Absolute(v))

\* P2 as stated, against target_value_interval itself
ClampingInsideTargetInterval ==
    (Stepped /\ ~before.rotate /\ contains(tiv, cur)) =>
        IF eff.v[1] > 0
        THEN /\ cur = tiv.max => ~output.some
             /\ output.some => /\ output.v.kind = "Absolute"
                               /\ RLt(cur, output.v.v)
                               /\ RLe(output.v.v, tiv.max)
        ELSE /\ cur = tiv.min => ~output.some
             /\ output.some => /\ output.v.kind = "Absolute"
                               /\ RLt(output.v.v, cur)
                               /\ RLe(tiv.min, output.v.v)

\* C6 (P2, clamping): with rotate off and the current value inside the
\* snapped target interval, a positive effective increment yields an output
\* in (current, snapped max] and a negative one an output in
\* [snapped min, current); at the snapped bound in the direction of movement
\* the call returns None, and only there.
ClampingInsideSnappedInterval ==
    (Stepped /\ ~before.rotate /\ contains(siv, cur)) =>
        IF eff.v[1] > 0
        THEN IF cur = siv.max THEN ~output.some
             ELSE /\ output.some /\ output.v.kind = "Absolute"
                  /\ RLt(cur, output.v.v)
                  /\ RLe(output.v.v, siv.max)
        ELSE IF cur = siv.min THEN ~output.some
             ELSE /\ output.some /\ output.v.kind = "Absolute"
                  /\ RLt(output.v.v, cur)
                  /\ RLe(siv.min, output.v.v)

\* a step up that ends on a snapped max above the target interval's max
ClampingInsideSnappedIntervalWitness ==
    /\ Stepped /\ ~before.rotate /\ contains(siv, cur)
    /\ eff.v[1] > 0
    /\ RLt(tiv.max, siv.max)
    /\ Emits(siv.max)

\* rotation as stated, against the bounds of target_value_interval itself
RotationWrapsToTargetBounds ==
    (Stepped /\ before.rotate) =>
        /\ (eff.v[1] > 0 /\ cur = tiv.max) => Emits(tiv.min)
        /\ (eff.v[1] < 0 /\ cur = tiv.min) => Emits(tiv.max)

\* C7: with rotate on, a positive effective increment at the target
\* interval's max emits the snapped interval's min and a negative one at the
\* target interval's min emits the snapped interval's max; the call returns
\* None when that bound is the current value.
RotationWrapsToSnappedBounds ==
    (Stepped /\ before.rotate) =>
        /\ (eff.v[1] > 0 /\ cur = tiv.max) =>
               IF siv.min = cur THEN ~output.some ELSE Emits(siv.min)
        /\ (eff.v[1] < 0 /\ cur = tiv.min) =>
               IF siv.max = cur THEN ~output.some ELSE Emits(siv.max)

\* a wrap from the max onto a snapped min that is not the target interval's
RotationWrapsToSnappedBoundsWitness ==
    /\ Stepped /\ before.rotate
    /\ eff.v[1] > 0 /\ cur = tiv.max
    /\ siv.min # tiv.min
    /\ Emits(siv.min)

\* the out-of-interval rule as stated: the bound is chosen by the sign
OutOfIntervalBoundBySign ==
    (Stepped /\ ~before.rotate /\ ~contains(siv, cur)) =>
        Emits(IF eff.v[1] > 0 THEN siv.min ELSE siv.max)

\* C8: with rotate off and the current value outside the snapped target
\* interval, the call emits the snapped bound closest to the current value
\* snapped to the grid, whatever the sign of the increment; if the snapped
\* current value lies inside the snapped interval the increment is added to
\* it and the sum clamped.
OutOfIntervalClosestBound ==
    (Stepped /\ ~before.rotate /\ ~contains(siv, cur)) =>
        LET snapped == snap_to_grid_by_interval_size(cur, grid)
        IN  IF RLt(snapped, siv.min) THEN Emits(siv.min)
            ELSE IF RLt(siv.max, snapped) THEN Emits(siv.max)
            ELSE Emits(RClamp(RAdd(snapped, eff.v), siv.min, siv.max))

\* a negative increment below the interval that emits the interval's min
OutOfIntervalClosestBoundWitness ==
    /\ Stepped /\ ~before.rotate /\ ~contains(siv, cur)
    /\ eff.v[1] < 0
    /\ RLt(snap_to_grid_by_interval_size(cur, grid), siv.min)
    /\ Emits(siv.min)

\* every increment below the target interval emits target_value_interval.min
BelowIntervalEmitsTargetMin ==
    (/\ op = "control" /\ input.kind = "Relative" /\ ~before.rotate
     /\ target.current_value.some /\ RLt(cur, tiv.min)) =>
        Emits(tiv.min)

\* C9: with rotate off, when the current value snapped to the grid lies
\* below the snapped target interval, every relative increment that is not
\* throttled emits the snapped interval's min.
BelowSnappedIntervalEmitsSnappedMin ==
    (/\ Stepped /\ input.kind = "Relative" /\ ~before.rotate
     /\ RLt(snap_to_grid_by_interval_size(cur, grid), siv.min)) =>
        Emits(siv.min)

\* a negative increment of more than one step on a discrete target
BelowSnappedIntervalEmitsSnappedMinWitness ==
    /\ Stepped /\ input.kind = "Relative" /\ ~before.rotate
    /\ RLt(snap_to_grid_by_interval_size(cur, grid), siv.min)
    /\ input.i < -1
    /\ target.control_type.kind = "AbsoluteDiscrete"
    /\ Emits(siv.min)

(***************************************************************************)
(* Absolute Normal mode: source and target intervals                       *)
(***************************************************************************)
ProjectionModes ==
    {[default_mode EXCEPT !.source_value_interval = sv,
                          !.target_value_interval = t,
                          !.out_of_range_behavior = o,
                          !.reverse = rev] :
        sv \in UnitIntervals, t \in UnitIntervals,
        o \in {"MinOrMax", "Ignore"}, rev \in BOOLEAN}

ProjectionTargets ==
    {Target([kind |-> "AbsoluteContinuous"], c) : c \in SampleCurrentValues}

InitProjection ==
    /\ mode \in ProjectionModes
    /\ target \in ProjectionTargets
    /\ InitCommon

\* Mode::control with an absolute value
ControlProjection ==
    /\ \E cv \in AbsoluteInputs : Call(cv)
    /\ UNCHANGED <<target, now, calls, sameSign, s5pos>>

NextProjection == ControlProjection

SpecProjection == InitProjection /\ [][NextProjection]_vars

\* target.min + clamp((v - source.min) / source.span, 0, 1) * target.span
projection(v, source, t) ==
    RAdd(t.min,
         RMul(RClamp(RDiv(RSub(v, source.min), span(source)), RZero, ROne),
              span(t)))

ProjectionApplies ==
    /\ op = "control" /\ input.kind = "Absolute"
    /\ before.absolute_mode = "Normal"
    /\ before.out_of_range_behavior = "MinOrMax"
    /\ ~before.reverse
    /\ ~before.control_transformation.some
    /\ ~before.round_target_value
    /\ is_full(before.jump_interval)
    /\ before.press_duration_processor = default_press_duration_processor
    /\ RLt(before.source_value_interval.min, before.source_value_interval.max)
    /\ target.control_type.kind = "AbsoluteContinuous"

\* C10: in Normal mode with MinOrMax, reverse off, no transformation,
\* rounding off, a full jump interval and a source interval of positive span,
\* control(Absolute(v)) on a continuous target emits
\* target.min + clamp((v - source.min) / source.span, 0, 1) * target.span, and
\* None exactly when that is the current value; a value below source.min
\* gives target.min and a value above source.max gives target.max.
NormalProjection ==
    ProjectionApplies =>
        LET source == before.source_value_interval
            p == projection(input.v, source, tiv)
        IN  /\ IF target.current_value.some /\ cur = p THEN ~output.some
               ELSE Emits(p)
            /\ RLt(input.v, source.min) => p = tiv.min
            /\ RLt(source.max, input.v) => p = tiv.max

\* a value above source.max that emits target.max
NormalProjectionWitness ==
    /\ ProjectionApplies
    /\ RLt(before.source_value_interval.max, input.v)
    /\ RLt(RZero, before.source_value_interval.min)
    /\ RLt(tiv.min, tiv.max)
    /\ Emits(tiv.max)

(***************************************************************************)
(* Equal-to-current suppression                                            *)
(***************************************************************************)
\* C11: for a target that reports a current value c, control never returns
\* Absolute(c), in whatever mode and for whatever input, except in Normal mode
\* on a trigger target, which emits the computed value also when it is c.
NeverEmitsCurrentValue ==
    (/\ op = "control" /\ target.current_value.some
     /\ ~(/\ input.kind = "Absolute" /\ before.absolute_mode = "Normal"
          /\ is_trigger(target.control_type))) =>
        ~Emits(cur)

\* Normal mode, no jump limit: the computed value is the current value of a
\* target that is no trigger, and nothing is emitted
NeverEmitsCurrentValueWitness ==
    /\ op = "control" /\ target.current_value.some
    /\ input.kind = "Absolute" /\ before.absolute_mode = "Normal"
    /\ ~is_trigger(target.control_type)
    /\ is_full(before.jump_interval)
    /\ is_within_interval(input.v, before.source_value_interval)
    /\ before.press_duration_processor = default_press_duration_processor
    /\ pep_up_control_value(before, input.v, target.control_type,
                            target.current_value, "PreferOne") = cur
    /\ ~output.some

(***************************************************************************)
(* P4: feedback after control                                              *)
(***************************************************************************)
RoundTripApplies ==
    /\ op = "control" /\ input.kind = "Absolute"
    /\ before.absolute_mode = "Normal"
    /\ ~before.control_transformation.some
    /\ ~before.feedback_transformation.some
    /\ ~before.round_target_value
    /\ is_full(before.jump_interval)
    /\ before.press_duration_processor = default_press_duration_processor
    /\ RLt(before.source_value_interval.min, before.source_value_interval.max)
    /\ RLt(tiv.min, tiv.max)
    /\ is_within_interval(input.v, before.source_value_interval)

\* C12 (P4): with source and target intervals of positive span, no
\* transformation, rounding off and a full jump interval, reverse on or off,
\* and x inside the source interval: if control(Absolute(x)) in Normal mode
\* returns Some(Absolute(y)) then feedback(y) returns Some(x).
FeedbackInvertsControl ==
    (RoundTripApplies /\ output.some) =>
        /\ output.v.kind = "Absolute"
        /\ feedback(mode, output.v.v) = Some(input.v)

\* a round trip through different source and target intervals, reversed
FeedbackInvertsControlWitness ==
    /\ RoundTripApplies /\ output.some
    /\ before.reverse
    /\ before.source_value_interval # tiv
    /\ output.v.v # input.v
    /\ output.v.v # uv_inverse(input.v)
    /\ feedback(mode, output.v.v) = Some(input.v)

(***************************************************************************)
(* Feedback                                                                *)
(***************************************************************************)
FeedbackModes ==
    {[default_mode EXCEPT !.source_value_interval = sv,
                          !.target_value_interval = t,
                          !.out_of_range_behavior = o,
                          !.reverse = rev,
                          !.feedback_transformation = ft] :
        sv \in SampleIntervals, t \in UnitIntervals,
        o \in OutOfRangeBehaviors, rev \in BOOLEAN, ft \in Transformations}

InitFeedback ==
    /\ mode \in FeedbackModes
    /\ target = Target([kind |-> "AbsoluteContinuous"], None)
    /\ InitCommon

NextFeedback == Feedback

SpecFeedback == InitFeedback /\ [][NextFeedback]_vars

\* The last feedback call got a value outside the target interval.
FedOutOfRange ==
    /\ op = "feedback"
    /\ ~is_within_interval(input.v, mode.target_value_interval)

\* the rule as stated: source.min below the interval, source.max above it
OutOfRangeFeedbackMinOrMax ==
    (FedOutOfRange /\ mode.out_of_range_behavior = "MinOrMax") =>
        output = Some(IF RLt(input.v, mode.target_value_interval.min)
                      THEN mode.source_value_interval.min
                      ELSE mode.source_value_interval.max)

\* C13: with MinOrMax, a value outside the target interval is fed back as the
\* bound of the target interval next to it: the unit value 0 (below the
\* interval) or 1 (above it) takes the rest of the feedback path, so that
\* source.min is emitted below and source.max above the interval when neither
\* reverse nor an inverting transformation flips the value, and source.max
\* below and source.min above when one of them does.
OutOfRangeFeedbackNearestBound ==
    (FedOutOfRange /\ mode.out_of_range_behavior = "MinOrMax") =>
        LET below == RLt(input.v, mode.target_value_interval.min)
            flipped == mode.reverse # (mode.feedback_transformation
                                           = Some("inverse"))
        IN  output = Some(IF below # flipped
                          THEN mode.source_value_interval.min
                          ELSE mode.source_value_interval.max)

\* a value below the target interval, reverse on: source.max is emitted
OutOfRangeFeedbackNearestBoundWitness ==
    /\ FedOutOfRange /\ mode.out_of_range_behavior = "MinOrMax"
    /\ mode.reverse /\ ~mode.feedback_transformation.some
    /\ RLt(input.v, mode.target_value_interval.min)
    /\ RLt(mode.source_value_interval.min, mode.source_value_interval.max)
    /\ output = Some(mode.source_value_interval.max)

\* C14: feedback returns None if and only if out_of_range_behavior is Ignore
\* and the value lies outside the target interval; in every other case it
\* returns a value inside the source interval.
FeedbackNoneOnlyIfIgnored ==
    op = "feedback" =>
        IF FedOutOfRange /\ mode.out_of_range_behavior = "Ignore"
        THEN ~output.some
        ELSE /\ output.some
             /\ is_within_interval(output.v, mode.source_value_interval)

\* Min, a single-value target interval, a failing transformation and a value
\* outside the interval: a value is fed back
FeedbackNoneOnlyIfIgnoredWitness ==
    /\ FedOutOfRange /\ mode.out_of_range_behavior = "Min"
    /\ mode.target_value_interval.min = mode.target_value_interval.max
    /\ mode.feedback_transformation = Some("err")
    /\ RLt(RZero, mode.source_value_interval.min)
    /\ output = Some(mode.source_value_interval.min)

(***************************************************************************)
(* ToggleButtons                                                           *)
(***************************************************************************)
Toggled ==
    /\ op = "control" /\ input.kind = "Absolute"
    /\ before.absolute_mode = "ToggleButtons"
    /\ before.press_duration_processor = default_press_duration_processor

\* the value a press switches to
toggle_value == IF RLt(center(tiv), cur) THEN tiv.min ELSE tiv.max

\* the rule as stated: every press of a target with a current value emits
TogglePressAlwaysEmits ==
    Toggled =>
        IF is_zero(input.v) \/ ~target.current_value.some THEN ~output.some
        ELSE Emits(toggle_value)

\* C15: in ToggleButtons mode a non-zero Absolute input of any amplitude on a
\* target with current value c emits target_value_interval.min if c is
\* greater than the interval's center and target_value_interval.max
\* otherwise, also when c lies outside the interval, unless that value is c
\* itself (a single-value interval holding c), when it returns None; a zero
\* input or an absent current value yields None.
TogglePressEmitsUnlessThere ==
    Toggled =>
        IF is_zero(input.v) \/ ~target.current_value.some THEN ~output.some
        ELSE IF toggle_value = cur
        THEN ~output.some /\ tiv.min = tiv.max
        ELSE Emits(toggle_value)

\* a current value above the target interval is switched to the interval's min
TogglePressEmitsUnlessThereWitness ==
    /\ Toggled /\ ~is_zero(input.v) /\ target.current_value.some
    /\ RLt(tiv.max, cur)
    /\ RLt(tiv.min, tiv.max)
    /\ Emits(tiv.min)

(***************************************************************************)
(* Dispatch: every absolute mode and every kind of input on every type of  *)
(* target                                                                  *)
(***************************************************************************)
DispatchModes ==
    {[default_mode EXCEPT !.absolute_mode = am,
                          !.source_value_interval = sv,
                          !.out_of_range_behavior = o,
                          !.step_count_interval = sc] :
        am \in {"Normal", "IncrementalButtons", "ToggleButtons"},
        sv \in {full_unit_interval, Interval(LowValue, HighValue)},
        o \in OutOfRangeBehaviors,
        sc \in {Interval(1, 1), Interval(-MaxCount, -1)}}

ControlTypes ==
    {[kind |-> k] : k \in {"AbsoluteContinuous", "AbsoluteTrigger",
                           "AbsoluteSwitch", "Relative", "VirtualMulti",
                           "VirtualButton"}}
    \cup {[kind |-> k, step |-> LowValue] :
             k \in {"AbsoluteContinuousRoundable", "AbsoluteDiscrete"}}

DispatchTargets ==
    {Target(ct, c) : ct \in ControlTypes, c \in {None, Some(LowValue)}}

InitDispatch ==
    /\ mode \in DispatchModes
    /\ target \in DispatchTargets
    /\ InitCommon

NextDispatch == Control

SpecDispatch == InitDispatch /\ [][NextDispatch]_vars

\* C16: in IncrementalButtons mode an Absolute input that is zero or lies
\* outside source_value_interval returns None, for every type of target and
\* every out_of_range_behavior, and leaves increment_counter as it is.
IncrementalButtonsIgnoreOutOfSource ==
    (/\ op = "control" /\ input.kind = "Absolute"
     /\ before.absolute_mode = "IncrementalButtons"
     /\ before.press_duration_processor = default_press_duration_processor
     /\ \/ is_zero(input.v)
        \/ ~is_within_interval(input.v, before.source_value_interval)) =>
        /\ ~output.some
        /\ mode.increment_counter = before.increment_counter

\* a press above the source interval, MinOrMax, while the throttle is counting
IncrementalButtonsIgnoreOutOfSourceWitness ==
    /\ op = "control" /\ input.kind = "Absolute"
    /\ before.absolute_mode = "IncrementalButtons"
    /\ before.out_of_range_behavior = "MinOrMax"
    /\ RLt(before.source_value_interval.max, input.v)
    /\ target.control_type.kind = "Relative"
    /\ before.increment_counter # 0
    /\ ~output.some
    /\ mode.increment_counter = before.increment_counter

\* a relative increment, or a value in IncrementalButtons mode
StepInput ==
    /\ op = "control"
    /\ \/ input.kind = "Relative"
       \/ input.kind = "Absolute" /\ before.absolute_mode = "IncrementalButtons"

\* C20: for a Relative input or a value in IncrementalButtons mode, control
\* returns Relative or None on a Relative or VirtualMulti target, Absolute or
\* None on an AbsoluteContinuous, AbsoluteContinuousRoundable,
\* AbsoluteDiscrete, AbsoluteTrigger or AbsoluteSwitch target and None on a
\* VirtualButton target; an Absolute input in Normal or ToggleButtons mode
\* never returns a Relative value.
OutputKindFollowsTarget ==
    op = "control" =>
        LET kind == target.control_type.kind
        IN  IF ~StepInput THEN output.some => output.v.kind = "Absolute"
            ELSE IF kind \in IncrementKinds
            THEN output.some => output.v.kind = "Relative"
            ELSE IF kind \in ContinuousKinds \cup {"AbsoluteDiscrete"}
            THEN output.some => output.v.kind = "Absolute"
            ELSE kind = "VirtualButton" /\ ~output.some

\* a button press turned into an increment for a VirtualMulti target
OutputKindFollowsTargetWitness ==
    /\ StepInput /\ input.kind = "Absolute"
    /\ target.control_type.kind = "VirtualMulti"
    /\ output.some /\ output.v.kind = "Relative"

(***************************************************************************)
(* Scenario S7 (test absolute_to_relative::absolute_discrete_target::      *)
(* min_step_count_1)                                                       *)
(***************************************************************************)
S7StepSize == Norm(1, 20)
S7Inputs == {Absolute(v) : v \in {RZero, Norm(1, 10), Norm(1, 2), ROne}}

InitS7 ==
    /\ \E rot \in BOOLEAN :
          mode = [default_mode EXCEPT !.absolute_mode = "IncrementalButtons",
                                      !.step_count_interval = Interval(4, 8),
                                      !.rotate = rot]
    /\ \E k \in 0..20 :
          target = Target([kind |-> "AbsoluteDiscrete", step |-> S7StepSize],
                          Some(Norm(k, 20)))
    /\ InitCommon

\* Mode::control with one of the values of the scenario
ControlS7 ==
    /\ \E cv \in S7Inputs : Call(cv)
    /\ UNCHANGED <<target, now, calls, sameSign, s5pos>>

NextS7 == ControlS7

SpecS7 == InitS7 /\ [][NextS7]_vars

\* the scenario's target: current value 0
S7Applies == op = "control" /\ cur = RZero

\* the scenario as stated: 0.5 gives 0.25
ScenarioS7AsStated ==
    S7Applies =>
        /\ input.v = Norm(1, 10) => Emits(Norm(20, 100))
        /\ input.v = Norm(1, 2) => Emits(Norm(25, 100))
        /\ input.v = ROne => Emits(Norm(40, 100))

\* C17: scenario S7: with step_count_interval [4,8], a discrete target of
\* atomic step size 0.05 and current value 0, control(Abs(0.1)) = Abs(0.20),
\* control(Abs(0.5)) = Abs(0.30) (six steps) and control(Abs(1.0)) = Abs(0.40).
ScenarioS7 ==
    S7Applies =>
        /\ input.v = Norm(1, 10) => Emits(Norm(20, 100))
        /\ input.v = Norm(1, 2) => Emits(Norm(30, 100))
        /\ input.v = ROne => Emits(Norm(40, 100))

ScenarioS7Witness ==
    /\ S7Applies
    /\ input.v = Norm(1, 2)
    /\ Emits(Norm(30, 100))

(***************************************************************************)
(* Relative increments on continuous targets                               *)
(***************************************************************************)
\* a relative increment on a continuous-like target that has a current value
RelativeOnContinuous ==
    /\ op = "control" /\ input.kind = "Relative"
    /\ target.control_type.kind \in ContinuousKinds
    /\ target.current_value.some
    /\ ~before.rotate

\* s * clamp(|i| * step_size.min, step_size.min, step_size.max), s being the
\* sign of i, flipped when reverse is on
relative_step ==
    LET magnitude == RClamp(RMul(RInt(Abs(input.i)),
                                 before.step_size_interval.min),
                            before.step_size_interval.min,
                            before.step_size_interval.max)
    IN  IF (input.i < 0) # before.reverse THEN RNeg(magnitude) ELSE magnitude

\* the rule as stated: the sum is clamped to target_value_interval
RelativeStepClampedToTargetInterval ==
    (RelativeOnContinuous /\ contains(tiv, cur)) =>
        LET v == RClamp(RAdd(cur, relative_step), tiv.min, tiv.max)
        IN  IF v = cur THEN ~output.some ELSE Emits(v)

\* C18: a relative increment i on a continuous-like target with rotate off
\* and the current value c inside the snapped target interval emits
\* clamp(c + s * clamp(|i| * step_size.min, step_size.min, step_size.max),
\* snapped target interval), and None when that is c; the step-count interval
\* and the throttle counter play no role.
RelativeStepClampedToSnappedInterval ==
    (RelativeOnContinuous /\ contains(siv, cur)) =>
        LET v == RClamp(RAdd(cur, relative_step), siv.min, siv.max)
        IN  /\ IF v = cur THEN ~output.some ELSE Emits(v)
            /\ mode.increment_counter = before.increment_counter

\* an increment of two on a trigger target with a negative step count,
\* cut to the maximum step size, reverse on
RelativeStepClampedToSnappedIntervalWitness ==
    /\ RelativeOnContinuous /\ contains(siv, cur)
    /\ target.control_type.kind = "AbsoluteTrigger"
    /\ before.step_count_interval.min < 0
    /\ before.reverse /\ input.i = 2
    /\ relative_step = RNeg(before.step_size_interval.max)
    /\ RLt(before.step_size_interval.max,
           RMul(RInt(2), before.step_size_interval.min))
    /\ Emits(RAdd(cur, relative_step))

(***************************************************************************)
(* Step counts on targets that take increments                             *)
(***************************************************************************)
RelativeOnRelative ==
    /\ op = "control" /\ input.kind = "Relative"
    /\ target.control_type.kind = "Relative"

\* a + |i| - 1, passing over zero when a is negative, and at most b
step_count_factor(i, a, b) ==
    LET sum == a + Abs(i) - 1
        skipping == IF a < 0 /\ sum >= 0 THEN sum + 1 ELSE sum
    IN  IF skipping > b THEN b ELSE skipping

\* C19: on a Relative target with step_count_interval [a,b], 0 < a <= b,
\* control(Relative(i)) always emits Relative(d) with |d| = min(a + |i| - 1, b)
\* and the sign of i, flipped when reverse is on; with a negative minimum the
\* offset passes over zero: [-4,100] maps |i| = 10 to the magnitude 6,
\* |i| = 2 to the divisor 3 and |i| = 1 to the divisor 4, and a call that fires
\* with a divisor emits a single step.
StepCountAcceleration ==
    /\ RelativeOnRelative =>
           LET a == before.step_count_interval.min
               b == before.step_count_interval.max
               factor == step_count_factor(input.i, a, b)
               sign == IF (input.i < 0) # before.reverse THEN -1 ELSE 1
           IN  /\ a > 0 =>
                     /\ factor = (IF a + Abs(input.i) - 1 > b THEN b
                                  ELSE a + Abs(input.i) - 1)
                     /\ output = Some(Relative(sign * factor))
               /\ factor > 0 => output = Some(Relative(sign * factor))
               /\ factor < 0 =>
                     /\ factor_of(before, input, target) = factor
                     /\ output.some => output = Some(Relative(sign))
    /\ \A i \in {10, -10} :
           di_clamp_to_interval(i, Interval(-4, 100)) = 6
    /\ \A i \in {2, -2} : di_clamp_to_interval(i, Interval(-4, 100)) = -3
    /\ \A i \in {1, -1} : di_clamp_to_interval(i, Interval(-4, 100)) = -4

\* an increment of -2 with step counts [1,2] and reverse on emits +2
StepCountAccelerationWitness ==
    /\ RelativeOnRelative
    /\ before.step_count_interval = Interval(1, MaxCount)
    /\ before.reverse /\ input.i = -MaxInc
    /\ output = Some(Relative(MaxCount))

(***************************************************************************)
(* Transformations: every absolute mode with a control transformation, with *)
(* and without the press-duration gate                                     *)
(***************************************************************************)
TransformationModes ==
    {[default_mode EXCEPT !.absolute_mode = am,
                          !.control_transformation = ct,
                          !.source_value_interval = sv,
                          !.out_of_range_behavior = o,
                          !.jump_interval = ja[1],
                          !.approach_target_value = ja[2]] :
        am \in {"Normal", "IncrementalButtons", "ToggleButtons"},
        ct \in Transformations,
        sv \in {full_unit_interval, Interval(LowValue, HighValue)},
        o \in {"MinOrMax", "Ignore"},
        ja \in {<<full_unit_interval, FALSE>>, <<SampleJumpInterval, TRUE>>}}
    \cup
    {[default_mode EXCEPT !.absolute_mode = am,
                          !.control_transformation = ct,
                          !.press_duration_processor =
                              [interval |-> [min |-> 1, max |-> 2],
                               last_button_press |-> None]] :
        am \in {"Normal", "IncrementalButtons", "ToggleButtons"},
        ct \in Transformations}

TransformationTargets ==
    {Target([kind |-> "AbsoluteContinuous"], Some(LowValue)),
     Target([kind |-> "AbsoluteTrigger"], Some(LowValue)),
     Target([kind |-> "Relative"], Some(RZero))}

InitTransformation ==
    /\ mode \in TransformationModes
    /\ target \in TransformationTargets
    /\ InitCommon

NextTransformation == Control \/ Tick

SpecTransformation == InitTransformation /\ [][NextTransformation]_vars

\* the mode before the last call, with another control transformation
with_control_transformation(ct) ==
    [before EXCEPT !.control_transformation = ct]

\* C21: when control_transformation is present and fails, control in Normal
\* mode returns what it returns with control_transformation absent, and
\* leaves the Mode in the same state.
FailingTransformationIsSkipped ==
    (/\ op = "control" /\ input.kind = "Absolute"
     /\ before.absolute_mode = "Normal"
     /\ before.control_transformation = Some("err")) =>
        LET without == control(with_control_transformation(None), input,
                               target, now)
        IN  /\ output = without.res
            /\ mode = [without.mode EXCEPT
                          !.control_transformation = Some("err")]

\* a value is emitted although the transformation failed: the one the source
\* and target intervals give
FailingTransformationIsSkippedWitness ==
    /\ op = "control" /\ input.kind = "Absolute"
    /\ before.absolute_mode = "Normal"
    /\ before.control_transformation = Some("err")
    /\ before.source_value_interval # full_unit_interval
    /\ is_within_interval(input.v, before.source_value_interval)
    /\ output.some
    /\ output.v.v # RZero

\* The number of times a call invokes the control transformation.
\* pep_up_control_value: one call site (step 2), taken when a transformation
\* is present.
transform_calls_pep_up_control_value(m) ==
    IF m.control_transformation.some THEN 1 ELSE 0

\* control_absolute_normal: pep_up_control_value is called once, after the
\* press-duration gate and the out-of-range check have let the value pass;
\* hitting_target_considering_max_jump does not transform.
transform_calls_control_absolute_normal(m, control_value, t, time) ==
    LET gate == process(m.press_duration_processor, control_value, time)
    IN  IF ~gate.res.some THEN 0
        ELSE IF /\ ~is_within_interval(gate.res.v, m.source_value_interval)
                /\ m.out_of_range_behavior = "Ignore"
        THEN 0
        ELSE transform_calls_pep_up_control_value(m)

\* Mode::control: only the Normal arm leads to pep_up_control_value.
transform_calls_control(m, control_value, t, time) ==
    IF control_value.kind = "Relative" THEN 0
    ELSE IF m.absolute_mode = "Normal"
    THEN transform_calls_control_absolute_normal(m, control_value.v, t, time)
    ELSE 0

\* the last call never got to pep_up_control_value
NoTransformationExpected ==
    \/ input.kind = "Relative"
    \/ before.absolute_mode \in {"IncrementalButtons", "ToggleButtons"}
    \/ /\ input.kind = "Absolute"
       /\ LET gate == process(before.press_duration_processor, input.v, now)
          IN  \/ ~gate.res.some
              \/ /\ before.out_of_range_behavior = "Ignore"
                 /\ ~is_within_interval(gate.res.v,
                                        before.source_value_interval)

JumpTargetIntervals ==
    {full_unit_interval, Interval(LowValue, HighValue),
     Interval(Norm(2, Den), HighValue)}

JumpModes ==
    {[default_mode EXCEPT !.jump_interval = j, !.approach_target_value = a,
                          !.target_value_interval = tv, !.reverse = r] :
        j \in UnitIntervals, a \in BOOLEAN, tv \in JumpTargetIntervals,
        r \in BOOLEAN}

JumpTargets ==
    {Target([kind |-> k], c) :
        k \in {"AbsoluteContinuous", "AbsoluteTrigger"}, c \in CurrentValues}

InitJump ==
    /\ mode \in JumpModes
    /\ target \in JumpTargets
    /\ InitCommon

NextJump == Control

SpecJump == InitJump /\ [][NextJump]_vars

\* the last call was an absolute value in Normal mode for a target that
\* reports a current value
JumpApplies ==
    /\ op = "control"
    /\ input.kind = "Absolute"
    /\ before.absolute_mode = "Normal"
    /\ target.current_value.some

\* the value after step 3 of the Normal pipeline, before the jump filter
pepped_up ==
    pep_up_control_value(before, input.v, target.control_type,
                         target.current_value, "PreferOne")

jump_distance == calc_distance_from(pepped_up, target.current_value.v)

\* C23: without approach and with a non-full jump interval, control emits
\* the pepped-up value exactly if its distance from the current value lies
\* within the jump interval and it differs from the current value or the
\* target is a trigger, and None otherwise; with the full jump interval the
\* distance is not checked.
JumpFilter ==
    JumpApplies =>
        LET changed == \/ pepped_up # target.current_value.v
                       \/ is_trigger(target.control_type)
            in_jump == /\ RLe(before.jump_interval.min, jump_distance)
                       /\ RLe(jump_distance, before.jump_interval.max)
        IN  /\ (~is_full(before.jump_interval) /\ ~before.approach_target_value)
                   => output = IF in_jump /\ changed
                               THEN Some(Absolute(pepped_up)) ELSE None
            /\ is_full(before.jump_interval)
                   => output = IF changed THEN Some(Absolute(pepped_up))
                               ELSE None

\* a jump shorter than jump.min is dropped
JumpFilterWitness ==
    /\ JumpApplies
    /\ ~before.approach_target_value
    /\ RLt(RZero, jump_distance)
    /\ RLt(jump_distance, before.jump_interval.min)
    /\ ~output.some

\* C28: with a non-full jump interval every emitted value lies within
\* jump.max of the current value, also with approach and also when the
\* current value lies outside the target interval; an approached value is
\* the current value moved towards the requested one by
\* jump.min + d * jump.span.
JumpBoundedByMax ==
    (JumpApplies /\ ~is_full(before.jump_interval) /\ output.some) =>
        LET c == target.current_value.v
            moved == map_from_unit_interval_to(jump_distance,
                                               before.jump_interval)
        IN  /\ RLe(calc_distance_from(output.v.v, c), before.jump_interval.max)
            /\ (/\ before.approach_target_value
                /\ RLt(before.jump_interval.max, jump_distance))
                   => output.v.v = IF RLt(pepped_up, c) THEN RSub(c, moved)
                                   ELSE RAdd(c, moved)

\* C28 as amended: the bound holds without approach, and with approach
\* when the current value lies within the target interval, where an
\* approached value is the current value moved towards the requested one by
\* jump.min + d * jump.span (and kept within the target interval); when the
\* current value lies outside the target
\* interval, approaching emits the bound of the target interval nearest to
\* the current value.
JumpBoundedInsideTargetInterval ==
    (JumpApplies /\ ~is_full(before.jump_interval) /\ output.some) =>
        LET c == target.current_value.v
            tv == before.target_value_interval
            moved == map_from_unit_interval_to(jump_distance,
                                               before.jump_interval)
            approached == /\ before.approach_target_value
                          /\ RLt(before.jump_interval.max, jump_distance)
        IN  /\ (~approached \/ is_within_interval(c, tv))
                   => RLe(calc_distance_from(output.v.v, c),
                          before.jump_interval.max)
            /\ (approached /\ is_within_interval(c, tv))
                   => output.v.v = RClamp(IF RLt(pepped_up, c)
                                          THEN RSub(c, moved)
                                          ELSE RAdd(c, moved), tv.min, tv.max)
            /\ (approached /\ ~is_within_interval(c, tv))
                   => output.v.v = IF RLt(c, tv.min) THEN tv.min ELSE tv.max

\* an approached value for a current value inside the target interval
JumpBoundedInsideTargetIntervalWitness ==
    /\ JumpApplies
    /\ before.approach_target_value
    /\ is_within_interval(target.current_value.v, before.target_value_interval)
    /\ RLt(before.jump_interval.max, jump_distance)
    /\ RLt(RZero, before.jump_interval.min)
    /\ RLt(before.jump_interval.min, before.jump_interval.max)
    /\ output.some

\* the last call was an absolute sample for a Mode with a hold interval
GateApplies ==
    /\ op = "control"
    /\ input.kind = "Absolute"
    /\ before.press_duration_processor.interval
           # default_press_duration_interval

\* the press recorded before the last call, and the time it was held
recorded_press == before.press_duration_processor.last_button_press
hold_time == now - recorded_press.v.time
held_long_enough ==
    /\ recorded_press.some
    /\ before.press_duration_processor.interval.min <= hold_time
    /\ hold_time <= before.press_duration_processor.interval.max

\* the Mode without the recorded press, and without any hold interval
released == [before EXCEPT !.press_duration_processor.last_button_press = None]
ungated == [before EXCEPT !.press_duration_processor =
                              default_press_duration_processor]

\* C24: with a hold interval, a press is recorded and returns None; a
\* release passes a sample on only when a press is recorded and was held
\* for a time within the interval, the sample passed on is the recorded
\* amplitude, and the record is cleared so that no further release passes
\* anything on until the next press.
PressDurationGate ==
    GateApplies =>
        IF ~is_zero(input.v)
        THEN /\ output = None
             /\ mode = [before EXCEPT
                           !.press_duration_processor.last_button_press =
                               Some([time |-> now, value |-> input.v])]
        ELSE IF ~held_long_enough
        THEN /\ output = None
             /\ mode = before
        ELSE LET passed == control(ungated, Absolute(recorded_press.v.value),
                                   target, now)
             IN  /\ output = passed.res
                 /\ ~mode.press_duration_processor.last_button_press.some
                 /\ mode = [passed.mode EXCEPT
                               !.press_duration_processor =
                                   released.press_duration_processor]

\* a release after a hold within the interval that reaches the target
PressDurationGateWitness ==
    /\ GateApplies
    /\ is_zero(input.v)
    /\ held_long_enough
    /\ hold_time > 0
    /\ output.some

\* the last call ran the throttle logic
RanThrottle == op = "control" /\ factor_of(before, input, target) < 0

\* C25: after a call that runs the throttle logic the counter is not zero
\* and has the sign of the call's direction (the sign of the increment before
\* reverse, +1 for a button press), whether or not the call fired.
CounterSign ==
    RanThrottle =>
        /\ mode.increment_counter # 0
        /\ signum(mode.increment_counter) = direction(input)

\* a suppressed decrement with reverse on
CounterSignWitness ==
    /\ RanThrottle
    /\ before.reverse
    /\ input.kind = "Relative"
    /\ input.i < 0
    /\ ~output.some
    /\ mode.increment_counter < -1

\* C26: from counter 0 the magnitude of the counter never exceeds
\* |step_count_interval.min| when that minimum is negative, and the counter
\* stays 0 when the interval is entirely positive.
CounterBound ==
    /\ mode.step_count_interval.min < 0
           => Abs(mode.increment_counter) <= -mode.step_count_interval.min
    /\ mode.step_count_interval.min > 0 => mode.increment_counter = 0

\* the counter at its largest after a run of suppressed button presses
CounterBoundWitness ==
    /\ RanThrottle
    /\ input.kind = "Absolute"
    /\ calls >= MaxCount + 2
    /\ mode.step_count_interval.min = -MaxCount
    /\ Abs(mode.increment_counter) = MaxCount
    /\ ~output.some

(***************************************************************************)
(* The counter in calls of every kind: all absolute modes, targets that     *)
(* take step counts and targets that do not                                 *)
(***************************************************************************)
CounterModes ==
    {[default_mode EXCEPT !.absolute_mode = am, !.step_count_interval = sc] :
        am \in {"Normal", "IncrementalButtons", "ToggleButtons"},
        sc \in {Interval(-MaxCount, -1), Interval(-MaxCount, MaxCount),
                Interval(1, MaxCount)}}

CounterTargets ==
    {Target([kind |-> "Relative"], Some(RZero)),
     Target([kind |-> "AbsoluteDiscrete", step |-> Norm(1, Den)], Some(RZero)),
     Target([kind |-> "AbsoluteContinuous"], Some(RZero)),
     Target([kind |-> "VirtualButton"], None)}

InitCounter ==
    /\ mode \in CounterModes
    /\ target \in CounterTargets
    /\ InitCommon

\* increments from the slowest to one fast enough to leave the throttled
\* part of [-MaxCount, MaxCount], and button presses
CounterInputs ==
    {Relative(i) : i \in {-(MaxCount + 1), -1, 1, MaxCount + 1}}
    \cup PressInputs

\* Mode::control, counting the calls
ControlCounter ==
    /\ calls < MaxCalls
    /\ \E cv \in CounterInputs : Call(cv)
    /\ calls' = calls + 1
    /\ UNCHANGED <<target, now, sameSign, s5pos>>

NextCounter == ControlCounter

SpecCounter == InitCounter /\ [][NextCounter]_vars

\* the last call did not get to its_time_to_fire
NotThrottled ==
    /\ op = "control"
    /\ \/ /\ input.kind = "Absolute"
          /\ before.absolute_mode \in {"Normal", "ToggleButtons"}
       \/ target.control_type.kind \in ContinuousKinds \cup {"VirtualButton"}
       \/ factor_of(before, input, target) > 0

\* C27: a call that does not reach the throttle logic leaves
\* increment_counter as it was: an Absolute input in Normal or ToggleButtons
\* mode, any input on a continuous-like or VirtualButton target, and any
\* event with a positive step-count factor.
CounterFrame ==
    NotThrottled => mode.increment_counter = before.increment_counter

\* an accelerated increment in the middle of a throttle phase
CounterFrameWitness ==
    /\ NotThrottled
    /\ input.kind = "Relative"
    /\ target.control_type.kind = "Relative"
    /\ factor_of(before, input, target) > 0
    /\ Abs(before.increment_counter) = MaxCount
    /\ output.some

(***************************************************************************)
(* The grid handed to hit_target_absolutely_with_unit_increment, for step   *)
(* size intervals that start at 0 as well                                   *)
(***************************************************************************)
\* control_absolute_incremental_buttons: the grid of its call of
\* hit_target_absolutely_with_unit_increment, None when the call is not
\* reached
hit_target_grid_incremental_buttons(m, control_value, t, time) ==
    LET gate == process(m.press_duration_processor, control_value, time)
        cv == gate.res.v
        kind == t.control_type.kind
    IN  IF ~gate.res.some THEN None
        ELSE IF is_zero(cv) \/ ~is_within_interval(cv, m.source_value_interval)
        THEN None
        ELSE IF kind \in ContinuousKinds
        THEN LET step_size_value ==
                     map_from_unit_interval_to(
                         map_to_unit_interval_from(
                             cv, m.source_value_interval, "PreferOne"),
                         m.step_size_interval)
                 step_size_increment ==
                     to_increment(step_size_value, negative_if(m.reverse))
             IN  IF ~step_size_increment.some \/ ~t.current_value.some
                 THEN None
                 ELSE Some(m.step_size_interval.min)
        ELSE IF kind = "AbsoluteDiscrete"
        THEN LET c == convert_to_discrete_increment(m, cv)
             IN  IF ~c.res.some THEN None
                 ELSE IF ~to_unit_increment(c.res.v, t.control_type.step).some
                 THEN None
                 ELSE IF ~t.current_value.some THEN None
                 ELSE Some(t.control_type.step)
        ELSE None

\* control_relative: the same
hit_target_grid_relative(m, discrete_increment, t) ==
    LET kind == t.control_type.kind
    IN  IF kind \in ContinuousKinds
        THEN LET potentially_reversed_increment ==
                     IF m.reverse THEN di_inverse(discrete_increment)
                     ELSE discrete_increment
                 unit_increment ==
                     to_unit_increment(potentially_reversed_increment,
                                       m.step_size_interval.min)
             IN  IF ~unit_increment.some \/ ~t.current_value.some THEN None
                 ELSE Some(m.step_size_interval.min)
        ELSE IF kind = "AbsoluteDiscrete"
        THEN LET p == pep_up_discrete_increment(m, discrete_increment)
             IN  IF ~p.res.some THEN None
                 ELSE IF ~to_unit_increment(p.res.v, t.control_type.step).some
                 THEN None
                 ELSE IF ~t.current_value.some THEN None
                 ELSE Some(t.control_type.step)
        ELSE None

\* Mode::control: Normal and ToggleButtons never get there
hit_target_grid(m, control_value, t, time) ==
    IF control_value.kind = "Relative"
    THEN hit_target_grid_relative(m, control_value.i, t)
    ELSE IF m.absolute_mode = "IncrementalButtons"
    THEN hit_target_grid_incremental_buttons(m, control_value.v, t, time)
    ELSE None

\* Snapping to a grid of size 0 divides by zero: what
\* hit_target_absolutely_with_unit_increment returns then is not defined,
\* any result is possible.
zero_grid_results == {None} \cup {Some(Absolute(v)) : v \in UnitValues}

GridStepSizeIntervals ==
    {Interval(RZero, HighValue), Interval(RZero, RZero),
     Interval(LowValue, HighValue)}

GridModes ==
    {[default_mode EXCEPT !.absolute_mode = "IncrementalButtons",
                          !.step_size_interval = ss, !.reverse = rev,
                          !.rotate = rot] :
        ss \in GridStepSizeIntervals, rev \in BOOLEAN, rot \in BOOLEAN}

GridTargets ==
    {Target([kind |-> "AbsoluteContinuous"], c) :
        c \in {None, Some(RZero), Some(LowValue), Some(ROne)}}
    \cup {Target([kind |-> "AbsoluteDiscrete", step |-> LowValue], c) :
             c \in {Some(RZero), Some(LowValue)}}

InitGrid ==
    /\ mode \in GridModes
    /\ target \in GridTargets
    /\ InitCommon

\* Mode::control; the press-duration processor is the default one, so that a
\* call that gets to a zero grid changes nothing in the Mode
ControlGrid ==
    /\ \E cv \in RelativeInputs \cup AbsoluteInputs :
          LET g == hit_target_grid(mode, cv, target, now)
          IN  IF g.some /\ is_zero(g.v)
              THEN /\ output' \in zero_grid_results
                   /\ mode' = mode
                   /\ before' = mode
                   /\ input' = cv
                   /\ op' = "control"
              ELSE Call(cv)
    /\ UNCHANGED <<target, now, calls, sameSign, s5pos>>

NextGrid == ControlGrid

SpecGrid == InitGrid /\ [][NextGrid]_vars

\* C29: hit_target_absolutely_with_unit_increment is only reached with a
\* grid_interval_size greater than 0, also when step_size_interval starts at
\* 0, and the snapped target interval then has min <= max.
GridNeverZero ==
    op = "control" =>
        LET g == hit_target_grid(before, input, target, now)
        IN  g.some =>
                /\ RLt(RZero, g.v)
                /\ RLe(snapped_target_value_interval(before, g.v).min,
                       snapped_target_value_interval(before, g.v).max)

(***************************************************************************)
(* Toggling a target that adopts every value it is sent                     *)
(***************************************************************************)
ToggleRunModes ==
    {[default_mode EXCEPT !.absolute_mode = "ToggleButtons",
                          !.target_value_interval = tv] :
        tv \in SampleIntervals}

ToggleRunTargets ==
    {Target([kind |-> k], Some(c)) :
        k \in {"AbsoluteContinuous", "AbsoluteSwitch"}, c \in UnitValues}

InitToggleRun ==
    /\ mode \in ToggleRunModes
    /\ target \in ToggleRunTargets
    /\ InitCommon

\* Mode::control on a press or a release, followed by the target taking the
\* emitted value as its current value; calls counts the presses
ControlToggleRun ==
    /\ calls < MaxCalls
    /\ \E cv \in PressInputs :
          /\ Call(cv)
          /\ calls' = IF is_zero(cv.v) THEN calls ELSE calls + 1
    /\ target' = IF output'.some
                 THEN [target EXCEPT !.current_value = Some(output'.v.v)]
                 ELSE target
    /\ UNCHANGED <<now, sameSign, s5pos>>

NextToggleRun == ControlToggleRun

SpecToggleRun == InitToggleRun /\ [][NextToggleRun]_vars

\* this step is a non-zero press
Pressing == op' = "control" /\ input'.kind = "Absolute" /\ ~is_zero(input'.v)

\* C30: with a target interval of positive span and a target that adopts
\* every emitted value, every non-zero press emits a value; the first press
\* emits target.max when the current value is not above the center (and
\* target.min otherwise), and every later press emits the bound the target
\* is not at; a press on a target that reports a value returns None only
\* when the target interval is a single value.
ToggleAlternation ==
    [][Pressing =>
          LET tv == mode.target_value_interval
              c == target.current_value.v
          IN  /\ RLt(tv.min, tv.max) =>
                     output' = Some(Absolute(
                         IF calls = 0
                         THEN IF RLt(center(tv), c) THEN tv.min ELSE tv.max
                         ELSE IF c = tv.max THEN tv.min ELSE tv.max))
              /\ ~output'.some => tv.min = tv.max]_vars

\* the fourth press in a row, switching on again
ToggleAlternationWitness ==
    /\ op = "control"
    /\ calls = 4
    /\ RLt(mode.target_value_interval.min, mode.target_value_interval.max)
    /\ RLt(RZero, mode.target_value_interval.min)
    /\ output = Some(Absolute(mode.target_value_interval.max))
    /\ target.current_value = Some(mode.target_value_interval.max)

====
